---------------------------- MODULE Spec2Model ----------------------------
(***************************************************************************)
(* Verification model of the aoc2023 repository: the aoc_tools utility     *)
(* library (shortest paths, polygon geometry, hashable containers) and the *)
(* day scripts whose behaviour the specification makes statements about.   *)
(*                                                                         *)
(* The repository is a set of independent batch programs, so the module    *)
(* holds one specification per program part.  Every specification runs     *)
(* over the same variables; the variables of the parts a specification     *)
(* does not exercise keep their idle values.                               *)
(***************************************************************************)
EXTENDS Integers, Sequences, FiniteSets, TLC

VARIABLES
    \* ---- aoc_tools/shortest_path.py: BasicGraph and the two algorithms
    nodes,            \* BasicGraph.nodes: list of [identifier, paths]
    start_id,         \* BasicGraph.start_id (None when unset)
    end_id,           \* BasicGraph.end_id (None when unset)
    min_costs,        \* dijkstra: the defaultdict, as its items in insertion order
    cur_id,           \* dijkstra: node selected by find_next_node
    cur_cost,         \* dijkstra: its cost
    expanded,         \* history: how often each node went through the loop body
    sp_pc,            \* position of the running call
    sp_result,        \* what the call returned
    \* ---- aoc_tools/graph.py: the polygon functions
    polygon,          \* the vertex list handed to the function
    geo_call,         \* which function is called
    geo_pc,           \* "call" before, "returned" after
    geo_result,       \* its return value
    \* ---- aoc_tools/hashable.py: two containers of one class and a builtin set
    hash_class,       \* "HashList" or "HashDict"
    items,            \* _items of each container
    seen_hashes,      \* history: hash values returned since the last change
    table,            \* a builtin set holding containers: entries [hash, obj]
    found,            \* result of the last membership test
    \* ---- day25/part1.py: Graph and the Stoer-Wagner loop
    vertices,         \* Graph.vertices
    edges,            \* Graph.edges
    orig_vertices,    \* stoer_wagner_alg: copy taken on entry
    orig_edges,       \* stoer_wagner_alg: copy taken on entry
    best_cut,         \* stoer_wagner_alg: best Cut so far
    sw_phases,        \* history: calls of stoer_wagner_once so far
    sw_pc,            \* position in stoer_wagner_alg
    sw_result,        \* the Cut returned
    \* ---- the day scripts: one run of main()
    script,           \* which script runs
    filename,         \* args.filename
    file,             \* what the file holds
    stdout,           \* the lines written by print(), a tuple of arguments each
    main_pc,          \* position of the run
    part_no,          \* day19 score_parts: index of the part being scored
    cur,              \* day19 apply_workflows: cur
    out,              \* day19 score_parts: out
    raised,           \* the exception that left main(), "" while there is none
    \* ---- day17/part2.py: City and its walk
    grid,             \* City.grid
    seen_cost_by_state,   \* City.seen_cost_by_state
    state_queues_by_cost, \* City.state_queues_by_cost
    walk_pc,          \* position in City.walk
    walk_result,      \* what City.walk returned
    \* ---- day23/part1.py and day23/part2.py: Map and its hikes
    tiles,            \* Map.tiles, a row of Tile values per line
    dir_queue,        \* find_nodes: queue
    explored,         \* find_nodes: explored
    hike_nodes,       \* find_nodes: nodes, as the appended (from, to, steps) in order
    hike_queue,       \* take_a_hike: queue
    hike_cache,       \* take_a_hike: cache, as its items
    longest_path,     \* take_a_hike: longest_path, and the value returned
    hike_pc,          \* position in take_a_hike
    \* ---- day10/part1.py: Maze and its walk
    maze_lines,       \* the lines of the file
    cells,            \* Maze.cells: [shape, is_start, reachable_from_start] per tile
    maze_start,       \* Maze.start_row, Maze.start_col
    maze_cur,         \* walk_tiles: cur_row, cur_col, cur_dir
    maze_printed,     \* the lines print_pipes and print_reachability wrote
    maze_pc,          \* position in parse_file
    maze_result,      \* what parse_file returned
    \* ---- day21/part2.py: Map and walk_n_steps
    plots,            \* Map.grid, a row of Cell values per line
    remember_steps,   \* the argument of walk_n_steps
    odd_points,       \* walk_n_steps: odd_points
    even_points,      \* walk_n_steps: even_points
    plot_queue,       \* walk_n_steps: queue
    plot_steps,       \* walk_n_steps: i, the rounds of the loop done
    plot_out,         \* walk_n_steps: out, and the list returned
    plot_pc,          \* position in walk_n_steps
    \* ---- day20/part1.py and day20/part2.py: Network
    net_part,         \* 1 for part1.py, 2 for part2.py
    net_lines,        \* the lines of the file, as (type, name, send_to)
    modules,          \* Network.modules
    missing_paths,    \* Network._missing_paths
    pulses_sent,      \* Network.pulses_sent
    signals_to_send,  \* push_button: signals_to_send
    signals_sent,     \* push_button of part 2: signals_sent
    net_cache,        \* part 2: what the functions under @cache have stored
    lows_received,    \* history: the LOW pulses every module was handed
    emitted,          \* history: the signals appended to signals_to_send so far
    delivered,        \* history: the signals handled, in order
    pushes,           \* history: the calls of push_button begun
    net_pc            \* position of the script

spVars == <<nodes, start_id, end_id, min_costs, cur_id, cur_cost, expanded,
            sp_pc, sp_result>>

geoVars == <<polygon, geo_call, geo_pc, geo_result>>

hashVars == <<hash_class, items, seen_hashes, table, found>>

swVars == <<vertices, edges, orig_vertices, orig_edges, best_cut, sw_phases,
            sw_pc, sw_result>>

runVars == <<script, filename, file, stdout, main_pc, part_no, cur, out, raised>>

cityVars == <<grid, seen_cost_by_state, state_queues_by_cost, walk_pc, walk_result>>

hikeVars == <<tiles, dir_queue, explored, hike_nodes, hike_queue, hike_cache, longest_path, hike_pc>>

mazeVars == <<maze_lines, cells, maze_start, maze_cur, maze_printed, maze_pc, maze_result>>

plotVars == <<plots, remember_steps, odd_points, even_points, plot_queue, plot_steps, plot_out, plot_pc>>

netVars == <<net_part, net_lines, modules, missing_paths, pulses_sent, signals_to_send, signals_sent, net_cache, lows_received, emitted, delivered, pushes, net_pc>>

vars == <<spVars, geoVars, hashVars, swVars, runVars, cityVars, hikeVars,
           mazeVars, plotVars, netVars>>

-----------------------------------------------------------------------------
(* Generic helpers *)

None == 0

Min2(a, b) == IF a <= b THEN a ELSE b

SetMin(S) == CHOOSE x \in S : \A y \in S : x <= y

Abs(x) == IF x < 0 THEN -x ELSE x

RECURSIVE SumSeq(_)
SumSeq(s) == IF Len(s) = 0 THEN 0 ELSE Head(s) + SumSeq(Tail(s))

Reverse(s) == [i \in 1..Len(s) |-> s[Len(s) + 1 - i]]

-----------------------------------------------------------------------------
(* Frame: the idle values of each program part, and for each part the
   variables of all the others. *)

SpIdle ==
    /\ nodes = <<>> /\ start_id = None /\ end_id = None
    /\ min_costs = <<>> /\ cur_id = None /\ cur_cost = 0
    /\ expanded = <<>> /\ sp_pc = "idle" /\ sp_result = None

GeoIdle ==
    polygon = <<>> /\ geo_call = "none" /\ geo_pc = "idle" /\ geo_result = None

HashIdle ==
    /\ hash_class = "none" /\ items = <<>> /\ seen_hashes = <<>>
    /\ table = {} /\ found = "none"

SwIdle ==
    /\ vertices = {} /\ edges = {} /\ orig_vertices = {} /\ orig_edges = {}
    /\ best_cut = None /\ sw_phases = 0 /\ sw_pc = "idle" /\ sw_result = None

RunIdle ==
    /\ script = "none" /\ filename = "" /\ file = <<>> /\ stdout = <<>>
    /\ main_pc = "idle" /\ part_no = 0 /\ cur = "" /\ out = 0 /\ raised = ""

CityIdle ==
    /\ grid = <<>> /\ seen_cost_by_state = <<>> /\ state_queues_by_cost = <<>>
    /\ walk_pc = "idle" /\ walk_result = None

HikeIdle ==
    /\ tiles = <<>>
    /\ dir_queue = <<>>
    /\ explored = {}
    /\ hike_nodes = <<>>
    /\ hike_queue = <<>>
    /\ hike_cache = <<>>
    /\ longest_path = None
    /\ hike_pc = "idle"

MazeIdle ==
    /\ maze_lines = <<>>
    /\ cells = <<>>
    /\ maze_start = <<>>
    /\ maze_cur = <<>>
    /\ maze_printed = <<>>
    /\ maze_pc = "idle"
    /\ maze_result = None

PlotIdle ==
    /\ plots = <<>>
    /\ remember_steps = <<>>
    /\ odd_points = {}
    /\ even_points = {}
    /\ plot_queue = {}
    /\ plot_steps = 0
    /\ plot_out = <<>>
    /\ plot_pc = "idle"

NetIdle ==
    /\ net_part = 0
    /\ net_lines = <<>>
    /\ modules = <<>>
    /\ missing_paths = <<>>
    /\ pulses_sent = <<>>
    /\ signals_to_send = <<>>
    /\ signals_sent = <<>>
    /\ net_cache = <<>>
    /\ lows_received = <<>>
    /\ emitted = <<>>
    /\ delivered = <<>>
    /\ pushes = 0
    /\ net_pc = "idle"

notSpVars == <<geoVars, hashVars, swVars, runVars, cityVars, hikeVars,
    mazeVars, plotVars, netVars>>
notGeoVars == <<spVars, hashVars, swVars, runVars, cityVars, hikeVars,
    mazeVars, plotVars, netVars>>
notHashVars == <<spVars, geoVars, swVars, runVars, cityVars, hikeVars,
    mazeVars, plotVars, netVars>>
notSwVars == <<spVars, geoVars, hashVars, runVars, cityVars, hikeVars,
    mazeVars, plotVars, netVars>>
notRunVars == <<spVars, geoVars, hashVars, swVars, cityVars, hikeVars,
    mazeVars, plotVars, netVars>>
notCityVars == <<spVars, geoVars, hashVars, swVars, runVars, hikeVars,
    mazeVars, plotVars, netVars>>
notHikeVars == <<spVars, geoVars, hashVars, swVars, runVars, cityVars,
    mazeVars, plotVars, netVars>>
notMazeVars == <<spVars, geoVars, hashVars, swVars, runVars, cityVars,
    hikeVars, plotVars, netVars>>
notPlotVars == <<spVars, geoVars, hashVars, swVars, runVars, cityVars,
    hikeVars, mazeVars, netVars>>
notNetVars == <<spVars, geoVars, hashVars, swVars, runVars, cityVars,
    hikeVars, mazeVars, plotVars>>

NotSpIdle == GeoIdle /\ HashIdle /\ SwIdle /\ RunIdle /\ CityIdle /\ HikeIdle
    /\ MazeIdle /\ PlotIdle /\ NetIdle
NotGeoIdle == SpIdle /\ HashIdle /\ SwIdle /\ RunIdle /\ CityIdle /\ HikeIdle
    /\ MazeIdle /\ PlotIdle /\ NetIdle
NotHashIdle == SpIdle /\ GeoIdle /\ SwIdle /\ RunIdle /\ CityIdle /\ HikeIdle
    /\ MazeIdle /\ PlotIdle /\ NetIdle
NotSwIdle == SpIdle /\ GeoIdle /\ HashIdle /\ RunIdle /\ CityIdle /\ HikeIdle
    /\ MazeIdle /\ PlotIdle /\ NetIdle
NotRunIdle == SpIdle /\ GeoIdle /\ HashIdle /\ SwIdle /\ CityIdle /\ HikeIdle
    /\ MazeIdle /\ PlotIdle /\ NetIdle
NotCityIdle == SpIdle /\ GeoIdle /\ HashIdle /\ SwIdle /\ RunIdle /\ HikeIdle
    /\ MazeIdle /\ PlotIdle /\ NetIdle
NotHikeIdle == SpIdle /\ GeoIdle /\ HashIdle /\ SwIdle /\ RunIdle /\ CityIdle
    /\ MazeIdle /\ PlotIdle /\ NetIdle
NotMazeIdle == SpIdle /\ GeoIdle /\ HashIdle /\ SwIdle /\ RunIdle /\ CityIdle
    /\ HikeIdle /\ PlotIdle /\ NetIdle
NotPlotIdle == SpIdle /\ GeoIdle /\ HashIdle /\ SwIdle /\ RunIdle /\ CityIdle
    /\ HikeIdle /\ MazeIdle /\ NetIdle
NotNetIdle == SpIdle /\ GeoIdle /\ HashIdle /\ SwIdle /\ RunIdle /\ CityIdle
    /\ HikeIdle /\ MazeIdle /\ PlotIdle

-----------------------------------------------------------------------------
(***************************************************************************)
(* aoc_tools/shortest_path.py                                              *)
(***************************************************************************)

\* INFINITY is 10^56 - 1 in the source.  Python integers are unbounded; the
\* model uses a value that still exceeds every sum of path costs within the
\* bounds and whose double fits the model checker's integers, so that
\* INFINITY + cost and INFINITY + INFINITY behave as they do in the source.
INFINITY == 999999999

NumNodes == 3
MaxPaths == 3
MinCost == -1
MaxCost == 1

NodeIds == 1..NumNodes

\* class Path
PathRec == [from_node_id : NodeIds, to_node_id : NodeIds, cost : MinCost..MaxCost]

\* All lists of at most k paths, grouped by the node they leave (the order in
\* which BasicGraph.paths() chains the nodes' path lists).
RECURSIVE PathLists(_)
PathLists(k) ==
    IF k = 0 THEN {<<>>}
    ELSE LET shorter == PathLists(k - 1)
             longest == {s \in shorter : Len(s) = k - 1}
         IN  shorter \cup
             {Append(sp[1], sp[2]) :
                sp \in {x \in longest \X PathRec :
                          \/ Len(x[1]) = 0
                          \/ x[1][Len(x[1])].from_node_id <= x[2].from_node_id}}

PathsOfNode(plist, n) == SelectSeq(plist, LAMBDA p : p.from_node_id = n)

\* A BasicGraph whose nodes 1..NumNodes carry the paths of plist.
GraphOf(plist) ==
    [n \in NodeIds |-> [identifier |-> n, paths |-> PathsOfNode(plist, n)]]

\* BasicGraph.find_node (every identifier of NodeIds is a node of the graph)
find_node(node_id) ==
    LET hits == {i \in 1..Len(nodes) : nodes[i].identifier = node_id}
    IN  IF hits = {} THEN None ELSE SetMin(hits)

\* BasicGraph.node_ids
node_ids == [i \in 1..Len(nodes) |-> nodes[i].identifier]

\* BasicGraph.paths: the nodes' path lists chained in node order
RECURSIVE ChainPaths(_)
ChainPaths(i) ==
    IF i > Len(nodes) THEN <<>> ELSE nodes[i].paths \o ChainPaths(i + 1)

paths == ChainPaths(1)

\* ---- dict helpers: a dict is the sequence of its items in insertion order

DictHas(d, key) == \E i \in 1..Len(d) : d[i].key = key

\* defaultdict(lambda: INFINITY).__getitem__ (the value read)
DictGet(d, key) ==
    IF DictHas(d, key)
    THEN d[CHOOSE i \in 1..Len(d) : d[i].key = key].value
    ELSE INFINITY

\* dict.__setitem__: an existing key keeps its position, a new one is appended
DictSet(d, key, value) ==
    IF DictHas(d, key)
    THEN [i \in 1..Len(d) |-> IF d[i].key = key
                                THEN [key |-> key, value |-> value] ELSE d[i]]
    ELSE Append(d, [key |-> key, value |-> value])

\* ---- Graph.dijkstra

\* find_next_node: scans every item of the dict, keeps the first strictly
\* cheaper one.  Nothing excludes the nodes already taken.
RECURSIVE FindNextFrom(_, _, _, _)
FindNextFrom(cost_by_id, i, best_id, best_cost) ==
    IF i > Len(cost_by_id) THEN <<best_id, best_cost>>
    ELSE IF cost_by_id[i].value < best_cost
         THEN FindNextFrom(cost_by_id, i + 1, cost_by_id[i].key, cost_by_id[i].value)
         ELSE FindNextFrom(cost_by_id, i + 1, best_id, best_cost)

find_next_node(cost_by_id) == FindNextFrom(cost_by_id, 1, None, INFINITY)

\* The for loop over cur_node.paths: stops with raised = TRUE at the first
\* negative cost, otherwise lowers the targets' costs.
RECURSIVE RelaxPaths(_, _, _, _)
RelaxPaths(costs, ps, i, cost) ==
    IF i > Len(ps) THEN [raised |-> FALSE, costs |-> costs]
    ELSE IF ps[i].cost < 0 THEN [raised |-> TRUE, costs |-> costs]
    ELSE LET to == ps[i].to_node_id
         IN  RelaxPaths(DictSet(costs, to, Min2(DictGet(costs, to), cost + ps[i].cost)),
                        ps, i + 1, cost)

DijkstraInit ==
    /\ \E plist \in PathLists(MaxPaths) : nodes = GraphOf(plist)
    /\ start_id \in NodeIds \cup {None}
    /\ end_id \in NodeIds \cup {None}
    /\ min_costs = <<>> /\ cur_id = None /\ cur_cost = 0
    /\ expanded = [n \in NodeIds |-> 0]
    /\ sp_pc = "call" /\ sp_result = None
    /\ NotSpIdle

\* Lines 77-95: the two assertions, the initial dict, the first selection.
DijkstraStart ==
    /\ sp_pc = "call"
    /\ IF start_id = None \/ end_id = None
       THEN /\ sp_pc' = "assertion_error"
            /\ UNCHANGED <<min_costs, cur_id, cur_cost>>
       ELSE LET first == <<[key |-> start_id, value |-> 0]>>
                nxt == find_next_node(first)
            IN  /\ min_costs' = first
                /\ cur_id' = nxt[1]
                /\ cur_cost' = nxt[2]
                /\ sp_pc' = "loop"
    /\ UNCHANGED <<nodes, start_id, end_id, expanded, sp_result, notSpVars>>

\* Lines 96-111: one round of the while loop.  The loop is a deterministic
\* function of (min_costs, cur_id, cur_cost); a round that ends in the state
\* it started from is therefore repeated forever, which sp_pc = "diverged"
\* records.
DijkstraRound ==
    /\ sp_pc = "loop"
    /\ cur_id # end_id /\ cur_id # None
    /\ IF cur_cost < 0
       THEN /\ sp_pc' = "runtime_error"
            /\ UNCHANGED <<min_costs, cur_id, cur_cost, expanded>>
       ELSE LET cur_node == nodes[find_node(cur_id)]
                relaxed == RelaxPaths(min_costs, cur_node.paths, 1, cur_cost)
                nxt == find_next_node(relaxed.costs)
            IN  /\ expanded' = [expanded EXCEPT ![cur_id] = @ + 1]
                /\ min_costs' = relaxed.costs
                /\ IF relaxed.raised
                   THEN /\ sp_pc' = "runtime_error"
                        /\ UNCHANGED <<cur_id, cur_cost>>
                   ELSE /\ cur_id' = nxt[1]
                        /\ cur_cost' = nxt[2]
                        /\ sp_pc' = IF /\ relaxed.costs = min_costs
                                       /\ nxt = <<cur_id, cur_cost>>
                                    THEN "diverged" ELSE "loop"
    /\ UNCHANGED <<nodes, start_id, end_id, sp_result, notSpVars>>

\* Lines 112-115: the loop condition failed.
DijkstraReturn ==
    /\ sp_pc = "loop"
    /\ ~(cur_id # end_id /\ cur_id # None)
    /\ sp_result' = IF cur_id = None THEN INFINITY ELSE cur_cost
    /\ sp_pc' = "returned"
    /\ UNCHANGED <<nodes, start_id, end_id, min_costs, cur_id, cur_cost, expanded, notSpVars>>

DijkstraNext == DijkstraStart \/ DijkstraRound \/ DijkstraReturn

SpecDijkstra == DijkstraInit /\ [][DijkstraNext]_vars

\* ---- Graph.floyd_warshall

AllPairs == NodeIds \X NodeIds

\* Lines 127-129: best_costs[key] = path.cost for every path, in order, so a
\* later path between the same two nodes replaces an earlier one.
RECURSIVE DirectCosts(_, _, _)
DirectCosts(best, ps, i) ==
    IF i > Len(ps) THEN best
    ELSE DirectCosts([best EXCEPT ![<<ps[i].from_node_id, ps[i].to_node_id>>] = ps[i].cost],
                     ps, i + 1)

\* Lines 132-133: best_costs[(node_id, node_id)] = 0
RECURSIVE ZeroDiagonal(_, _, _)
ZeroDiagonal(best, ids, i) ==
    IF i > Len(ids) THEN best
    ELSE ZeroDiagonal([best EXCEPT ![<<ids[i], ids[i]>>] = 0], ids, i + 1)

\* Lines 138-143: the body of the triple loop
RelaxVia(best, id_k, id_i, id_j) ==
    [best EXCEPT ![<<id_i, id_j>>] =
        Min2(best[<<id_i, id_j>>], best[<<id_i, id_k>>] + best[<<id_k, id_j>>])]

\* Lines 135-137: for id_k, for id_i, for id_j, counted by t = 0 .. n^3 - 1
RECURSIVE TripleLoop(_, _, _)
TripleLoop(best, ids, t) ==
    LET n == Len(ids)
    IN  IF t >= n * n * n THEN best
        ELSE TripleLoop(RelaxVia(best, ids[(t \div (n * n)) + 1],
                                 ids[((t \div n) % n) + 1], ids[(t % n) + 1]),
                        ids, t + 1)

\* best_costs after line 143
FloydCosts ==
    TripleLoop(ZeroDiagonal(DirectCosts([p \in AllPairs |-> INFINITY], paths, 1),
                            node_ids, 1),
               node_ids, 0)

FloydInit ==
    /\ \E plist \in PathLists(MaxPaths) : nodes = GraphOf(plist)
    /\ start_id = None /\ end_id = None
    /\ min_costs = <<>> /\ cur_id = None /\ cur_cost = 0
    /\ expanded = [n \in NodeIds |-> 0]
    /\ sp_pc = "call" /\ sp_result = None
    /\ NotSpIdle

\* Lines 117-151: the whole call; lines 145-149 raise when a diagonal entry
\* ended below zero.
FloydWarshall ==
    /\ sp_pc = "call"
    /\ LET best == FloydCosts
       IN  IF \E i \in 1..Len(node_ids) : best[<<node_ids[i], node_ids[i]>>] < 0
           THEN sp_pc' = "runtime_error" /\ sp_result' = None
           ELSE sp_pc' = "returned" /\ sp_result' = best
    /\ UNCHANGED <<nodes, start_id, end_id, min_costs, cur_id, cur_cost, expanded, notSpVars>>

FloydNext == FloydWarshall

SpecFloyd == FloydInit /\ [][FloydNext]_vars

-----------------------------------------------------------------------------
(***************************************************************************)
(* aoc_tools/graph.py (and its older copy graph.py): Point, Edge, Polygon, *)
(* enclosed_area, count_enclosed_points                                    *)
(*                                                                         *)
(* Python floats: every float these functions produce is an integer or an  *)
(* integer plus one half, far below 2^53, so float arithmetic is exact     *)
(* here.  The model writes a float x as the integer 2x ("in halves").      *)
(***************************************************************************)

GridMax == 2
MaxVerts == 3

Coords == 0..GridMax

\* class Point
Point == [row : Coords, col : Coords]

\* float(n) for an integer n, in halves
FromInt(n) == 2 * n

\* n / 2 (true division of an integer), in halves
HalfOf(n) == n

\* int(x) of a float x given in halves: truncation toward zero
IntOf(h) == IF h >= 0 THEN h \div 2 ELSE -((-h) \div 2)

\* class Edge
Edge(p1, p2) == [p1 |-> p1, p2 |-> p2]

\* Edge.determinant
determinant(e) == (e.p1.col * e.p2.row) - (e.p1.row * e.p2.col)

\* math.gcd on non-negative integers (gcd(0, 0) = 0)
RECURSIVE Gcd(_, _)
Gcd(a, b) == IF b = 0 THEN a ELSE Gcd(b, a % b)

\* An integer_points that takes the longer side for the count (wrong on
\* every slanted edge that is not diagonal).
integer_points_longer_side(e) ==
    LET row_diff == Abs(e.p1.row - e.p2.row)
        col_diff == Abs(e.p1.col - e.p2.col)
    IN  IF row_diff >= col_diff THEN row_diff ELSE col_diff

\* Edge.integer_points
integer_points(e) ==
    LET row_diff == Abs(e.p1.row - e.p2.row)
        col_diff == Abs(e.p1.col - e.p2.col)
    IN  Gcd(row_diff, col_diff)

\* get_edges
get_edges(poly) ==
    LET start_to_start == Append(poly, poly[1])
    IN  [i \in 1..Len(poly) |-> Edge(start_to_start[i], start_to_start[i + 1])]

\* sum(e.determinant() for e in edges)
MatrixSum(es) == SumSeq([i \in 1..Len(es) |-> determinant(es[i])])

\* sum(e.integer_points() for e in edges)
BoundaryPoints(es) == SumSeq([i \in 1..Len(es) |-> integer_points(es[i])])

\* An enclosed_area without the second pass for the other orientation.
enclosed_area_one_way(poly) == HalfOf(MatrixSum(get_edges(poly)))

\* enclosed_area (module level): a float, in halves
RECURSIVE enclosed_area(_)
enclosed_area(poly) ==
    LET matrix_sum == MatrixSum(get_edges(poly))
    IN  IF matrix_sum < 0
        THEN enclosed_area(Reverse(poly))
        ELSE HalfOf(matrix_sum)

\* count_enclosed_points (module level): an int
count_enclosed_points(poly) ==
    LET area == enclosed_area(poly)
        boundary_points == BoundaryPoints(get_edges(poly))
    IN  IntOf(area + FromInt(1) - HalfOf(boundary_points))

\* Polygon.edges: pairwise(points + [points[0]])
Polygon_edges(points) ==
    LET start_to_start == Append(points, points[1])
    IN  [i \in 1..(Len(start_to_start) - 1) |->
            Edge(start_to_start[i], start_to_start[i + 1])]

\* Polygon.enclosed_area: returns matrix_sum itself (an int; in halves here so
\* that it compares with the float of the module-level function)
RECURSIVE Polygon_enclosed_area(_)
Polygon_enclosed_area(points) ==
    LET matrix_sum == MatrixSum(Polygon_edges(points))
    IN  IF matrix_sum < 0
        THEN Polygon_enclosed_area(Reverse(points))
        ELSE FromInt(matrix_sum)

\* Polygon.count_enclosed_points
Polygon_count_enclosed_points(points) ==
    LET area == Polygon_enclosed_area(points)
        boundary_points == BoundaryPoints(Polygon_edges(points))
    IN  IntOf(area + FromInt(1) - HalfOf(boundary_points))

\* ---- the input domain: simple lattice polygons

Cross(a, b, c) ==
    (b.col - a.col) * (c.row - a.row) - (b.row - a.row) * (c.col - a.col)

Between(x, u, v) == (u <= x /\ x <= v) \/ (v <= x /\ x <= u)

\* p lies on the closed segment from a to b
OnSegment(a, b, p) ==
    /\ Cross(a, b, p) = 0
    /\ Between(p.row, a.row, b.row)
    /\ Between(p.col, a.col, b.col)

Sign(x) == IF x > 0 THEN 1 ELSE IF x < 0 THEN -1 ELSE 0

\* the closed segments ab and cd have a point in common
SegmentsMeet(a, b, c, d) ==
    \/ /\ Sign(Cross(a, b, c)) * Sign(Cross(a, b, d)) < 0
       /\ Sign(Cross(c, d, a)) * Sign(Cross(c, d, b)) < 0
    \/ OnSegment(a, b, c) \/ OnSegment(a, b, d)
    \/ OnSegment(c, d, a) \/ OnSegment(c, d, b)

\* The vertex list v is a simple polygon: at least three distinct vertices,
\* consecutive edges meet in their common vertex only, other edges not at all.
IsSimple(v) ==
    LET n == Len(v)
        nxt(i) == IF i = n THEN 1 ELSE i + 1
    IN  /\ n >= 3
        /\ \A i, j \in 1..n : i # j => v[i] # v[j]
        /\ \A i, j \in 1..n :
              i < j =>
                IF nxt(i) = j
                THEN /\ ~OnSegment(v[i], v[j], v[nxt(j)])
                     /\ ~OnSegment(v[j], v[nxt(j)], v[i])
                ELSE IF nxt(j) = i
                THEN /\ ~OnSegment(v[j], v[i], v[nxt(i)])
                     /\ ~OnSegment(v[i], v[nxt(i)], v[j])
                ELSE ~SegmentsMeet(v[i], v[nxt(i)], v[j], v[nxt(j)])

\* every simple polygon of at most MaxVerts vertices on the grid
SimplePolygons(most) ==
    UNION {{v \in [1..n -> Point] : IsSimple(v)} : n \in 3..most}

\* every axis-parallel rectangle of the grid, from each corner, both ways round
Rectangles(corners) ==
    {v \in [1..4 -> corners] :
        /\ IsSimple(v)
        /\ \A i \in 1..4 :
              LET w == v[IF i = 4 THEN 1 ELSE i + 1]
              IN  IF i % 2 = 1 THEN v[i].row = w.row ELSE v[i].col = w.col}
    \cup
    {v \in [1..4 -> corners] :
        /\ IsSimple(v)
        /\ \A i \in 1..4 :
              LET w == v[IF i = 4 THEN 1 ELSE i + 1]
              IN  IF i % 2 = 0 THEN v[i].row = w.row ELSE v[i].col = w.col}

\* A vertex list is one of these polygons, in either orientation, as it stands
\* or with its start point repeated at the end.
VertexLists(most) ==
    LET polys == SimplePolygons(most) \cup Rectangles(Point)
    IN  polys \cup {Append(v, v[1]) : v \in polys}

GeoInit ==
    /\ polygon \in VertexLists(MaxVerts)
    /\ geo_call = "none"
    /\ geo_pc = "call"
    /\ geo_result = None
    /\ NotGeoIdle

CallEnclosedArea ==
    /\ geo_pc = "call"
    /\ geo_call' = "enclosed_area"
    /\ geo_result' = enclosed_area(polygon)
    /\ geo_pc' = "returned"
    /\ UNCHANGED <<polygon, notGeoVars>>

CallCountEnclosedPoints ==
    /\ geo_pc = "call"
    /\ geo_call' = "count_enclosed_points"
    /\ geo_result' = count_enclosed_points(polygon)
    /\ geo_pc' = "returned"
    /\ UNCHANGED <<polygon, notGeoVars>>

CallPolygonEnclosedArea ==
    /\ geo_pc = "call"
    /\ geo_call' = "Polygon.enclosed_area"
    /\ geo_result' = Polygon_enclosed_area(polygon)
    /\ geo_pc' = "returned"
    /\ UNCHANGED <<polygon, notGeoVars>>

CallPolygonCountEnclosedPoints ==
    /\ geo_pc = "call"
    /\ geo_call' = "Polygon.count_enclosed_points"
    /\ geo_result' = Polygon_count_enclosed_points(polygon)
    /\ geo_pc' = "returned"
    /\ UNCHANGED <<polygon, notGeoVars>>

GeoNext ==
    \/ CallEnclosedArea
    \/ CallCountEnclosedPoints
    \/ CallPolygonEnclosedArea
    \/ CallPolygonCountEnclosedPoints

SpecGeo == GeoInit /\ [][GeoNext]_vars

\* ---- reference geometry, by counting lattice points one by one

\* the polygon's distinct vertices (a repeated start point dropped)
Ring(v) == IF v[Len(v)] = v[1] THEN SubSeq(v, 1, Len(v) - 1) ELSE v

RingNext(v, i) == IF i = Len(v) THEN 1 ELSE i + 1

OnBoundary(v, p) == \E i \in 1..Len(v) : OnSegment(v[i], v[RingNext(v, i)], p)

\* The ray from p towards larger col crosses the edge a-b (half-open rule).
RayCrosses(p, a, b) ==
    /\ (a.row > p.row) # (b.row > p.row)
    /\ IF b.row > a.row
       THEN (p.col - a.col) * (b.row - a.row) < (b.col - a.col) * (p.row - a.row)
       ELSE (p.col - a.col) * (b.row - a.row) > (b.col - a.col) * (p.row - a.row)

StrictlyInside(v, p) ==
    /\ ~OnBoundary(v, p)
    /\ Cardinality({i \in 1..Len(v) : RayCrosses(p, v[i], v[RingNext(v, i)])}) % 2 = 1

InteriorCount(v) == Cardinality({p \in Point : StrictlyInside(Ring(v), p)})

BoundaryCount(v) == Cardinality({p \in Point : OnBoundary(Ring(v), p)})

\* Twice the area enclosed: the boundary and the interior lattice points
\* weigh 1/2 and 1 (minus the one unit of the corners' turning).
TwiceArea(v) == 2 * InteriorCount(v) + BoundaryCount(v) - 2

NegativelyOriented(v) == MatrixSum(get_edges(v)) < 0


-----------------------------------------------------------------------------
(***************************************************************************)
(* aoc_tools/hashable.py: HashList and HashDict                            *)
(*                                                                         *)
(* Both __hash__ methods hash a generator object created for the call.  A  *)
(* generator hashes by identity, so the value depends on where the new     *)
(* object happens to be placed, not on the container; the model lets each  *)
(* call draw any of the possible object hashes.                            *)
(***************************************************************************)

NumObjectHashes == 2
MaxItems == 2
NumVals == 2

ObjectHashes == 1..NumObjectHashes
Vals == 1..NumVals
Keys == 1..NumVals
Containers == 1..2

\* list(items) for HashList.__init__: every list of at most MaxItems values
ListContents == UNION {[1..n -> Vals] : n \in 0..MaxItems}

\* dict(items) for HashDict.__init__: items in insertion order, keys distinct
DictContents ==
    {d \in UNION {[1..n -> Keys \X Vals] : n \in 0..MaxItems} :
        \A i, j \in 1..Len(d) : i # j => d[i][1] # d[j][1]}

\* HashList.__hash__ / HashDict.__hash__: hash(<generator object>); the
\* possible results of one call
GeneratorHashes(contents) == ObjectHashes

\* dict.__setitem__ on the items of a HashDict
PairsSet(d, k, v) ==
    IF \E i \in 1..Len(d) : d[i][1] = k
    THEN [i \in 1..Len(d) |-> IF d[i][1] = k THEN <<k, v>> ELSE d[i]]
    ELSE Append(d, <<k, v>>)

\* Mapping.__eq__: dict(self.items()) == dict(other.items())
MappingEq(d1, d2) == {d1[i] : i \in 1..Len(d1)} = {d2[i] : i \in 1..Len(d2)}

\* == between containers c1 and c2.  HashDict inherits Mapping.__eq__;
\* HashList inherits no __eq__ (Sequence defines none), so it is identity.
ContainerEq(c1, c2) ==
    IF hash_class = "HashDict" THEN MappingEq(items[c1], items[c2]) ELSE c1 = c2

\* the two containers hold the same contents
SameContents(c1, c2) ==
    IF hash_class = "HashDict" THEN MappingEq(items[c1], items[c2])
    ELSE items[c1] = items[c2]

\* set lookup: an entry with the same hash that is the object or equals it
Lookup(h, c) == \E e \in table : e.hash = h /\ (e.obj = c \/ ContainerEq(e.obj, c))

HashInit ==
    /\ hash_class \in {"HashList", "HashDict"}
    /\ items \in [Containers -> IF hash_class = "HashList"
                                THEN ListContents ELSE DictContents]
    /\ seen_hashes = [c \in Containers |-> {}]
    /\ table = {}
    /\ found = "none"
    /\ NotHashIdle

\* the bookkeeping of a change of container c
Changed(c) ==
    /\ seen_hashes' = [seen_hashes EXCEPT ![c] = {}]
    /\ table' = {IF e.obj = c THEN [e EXCEPT !.stale = TRUE] ELSE e : e \in table}
    /\ UNCHANGED <<hash_class, found, notHashVars>>

\* hash(c)
CallHash(c) ==
    /\ \E h \in GeneratorHashes(items[c]) :
          seen_hashes' = [seen_hashes EXCEPT ![c] = @ \cup {h}]
    /\ UNCHANGED <<hash_class, items, table, found, notHashVars>>

\* HashList.__setitem__(key, value) with an index
HashListSetItem(c, key, value) ==
    /\ hash_class = "HashList"
    /\ key \in 1..Len(items[c])
    /\ items' = [items EXCEPT ![c][key] = value]
    /\ Changed(c)

\* HashList.__delitem__(key) with an index
HashListDelItem(c, key) ==
    /\ hash_class = "HashList"
    /\ key \in 1..Len(items[c])
    /\ items' = [items EXCEPT ![c] =
                    SubSeq(@, 1, key - 1) \o SubSeq(@, key + 1, Len(@))]
    /\ Changed(c)

\* HashList.insert(index, value)
HashListInsert(c, index, value) ==
    /\ hash_class = "HashList"
    /\ Len(items[c]) < MaxItems
    /\ index \in 1..(Len(items[c]) + 1)
    /\ items' = [items EXCEPT ![c] =
                    SubSeq(@, 1, index - 1) \o <<value>> \o SubSeq(@, index, Len(@))]
    /\ Changed(c)

\* HashDict.__setitem__(k, v)
HashDictSetItem(c, k, v) ==
    /\ hash_class = "HashDict"
    /\ Len(PairsSet(items[c], k, v)) <= MaxItems
    /\ items' = [items EXCEPT ![c] = PairsSet(@, k, v)]
    /\ Changed(c)

\* HashDict.__delitem__(k)
HashDictDelItem(c, k) ==
    /\ hash_class = "HashDict"
    /\ \E i \in 1..Len(items[c]) : items[c][i][1] = k
    /\ items' = [items EXCEPT ![c] = SelectSeq(@, LAMBDA kv : kv[1] # k)]
    /\ Changed(c)

\* a_set.add(c), on a set that holds nothing yet: hashes c, stores it
SetAdd(c) ==
    /\ table = {}
    /\ \E h \in GeneratorHashes(items[c]) :
          /\ seen_hashes' = [seen_hashes EXCEPT ![c] = @ \cup {h}]
          /\ table' = {[hash |-> h, obj |-> c, stale |-> FALSE]}
    /\ UNCHANGED <<hash_class, items, found, notHashVars>>

\* c in a_set: hashes c, looks it up
SetContains(c) ==
    /\ table # {}
    /\ \E h \in GeneratorHashes(items[c]) :
          /\ seen_hashes' = [seen_hashes EXCEPT ![c] = @ \cup {h}]
          /\ found' = [obj |-> c, result |-> Lookup(h, c)]
    /\ UNCHANGED <<hash_class, items, table, notHashVars>>

HashNext ==
    \E c \in Containers :
        \/ CallHash(c)
        \/ \E key \in 1..MaxItems, value \in Vals : HashListSetItem(c, key, value)
        \/ \E key \in 1..MaxItems : HashListDelItem(c, key)
        \/ \E index \in 1..MaxItems, value \in Vals : HashListInsert(c, index, value)
        \/ \E k \in Keys, v \in Vals : HashDictSetItem(c, k, v)
        \/ \E k \in Keys : HashDictDelItem(c, k)
        \/ SetAdd(c)
        \/ SetContains(c)

SpecHash == HashInit /\ [][HashNext]_vars

-----------------------------------------------------------------------------
(***************************************************************************)
(* day25/part1.py: Graph, merge, most_tightly_connected_vertex,            *)
(* stoer_wagner_once, stoer_wagner_alg                                     *)
(*                                                                         *)
(* The code takes "some" vertex with set.pop() and breaks ties by the      *)
(* iteration order of a set of edges.  Both orders depend on string hashes *)
(* that change from run to run; the model leaves them open.                *)
(***************************************************************************)

\* INFINITY of day25/part1.py (10^55 - 1 there; see INFINITY above)
SW_INFINITY == 999999999

NumComponents == 5

ComponentNames == <<"a", "b", "c", "d", "e", "f", "g", "h">>

\* None where the code compares it with vertex names
NoVertex == "None"

\* class Edge
SwEdge(left, right, weight) == [left |-> left, right |-> right, weight |-> weight]

\* Edge.as_set
as_set(e) == {e.left, e.right}

\* Edge.to; None when the edge does not touch node
to(e, node) ==
    IF node = e.left THEN e.right ELSE IF node = e.right THEN e.left ELSE NoVertex

\* Edge.crosses_out_of; None when it does not cross
crosses_out_of(e, graph) ==
    LET diff == {e.left, e.right} \ graph
    IN  IF Cardinality(diff) = 1 THEN CHOOSE v \in diff : TRUE ELSE NoVertex

\* Graph.add_edge on the graph g = [vertices, edges]
add_edge(g, e) ==
    LET same == {x \in g.edges : as_set(x) = as_set(e)}
        vs == g.vertices \cup {e.left, e.right}
    IN  IF \E x \in same : x.weight <= e.weight
        THEN [vertices |-> vs, edges |-> g.edges]
        ELSE [vertices |-> vs, edges |-> (g.edges \ same) \cup {e}]

\* Graph.add_wire
add_wire(g, w) == add_edge(g, SwEdge(w[1], w[2], 1))

\* parse_file lines 331-337: add_wire for every wire of the input
RECURSIVE GraphOfWires(_)
GraphOfWires(ws) ==
    IF ws = {} THEN [vertices |-> {}, edges |-> {}]
    ELSE LET w == CHOOSE x \in ws : TRUE
         IN  add_wire(GraphOfWires(ws \ {w}), w)

\* weights_by_vertex of most_tightly_connected_vertex (line 117-121)
WeightsByVertex(vs) ==
    LET crossing == {e \in edges : crosses_out_of(e, vs) # NoVertex}
        RECURSIVE Total(_)
        Total(es) == IF es = {} THEN 0
                     ELSE LET e == CHOOSE x \in es : TRUE
                          IN  e.weight + Total(es \ {e})
    IN  [v \in {crosses_out_of(e, vs) : e \in crossing} |->
            Total({e \in crossing : crosses_out_of(e, vs) = v})]

\* Graph.most_tightly_connected_vertex: every (best_vertex, max_weight) it can
\* return; the first vertex of maximal weight wins, in an open order
most_tightly_connected_vertex(vs) ==
    LET weights_by_vertex == WeightsByVertex(vs)
        vouts == DOMAIN weights_by_vertex
    IN  IF vouts = {} THEN {<<"", -1>>}
        ELSE {<<v, weights_by_vertex[v]>> :
                v \in {u \in vouts :
                         \A x \in vouts : weights_by_vertex[x] <= weights_by_vertex[u]}}

\* the while loop of stoer_wagner_once (lines 252-255): every (s, t, weight)
\* it can end with
RECURSIVE GrowSubgraph(_, _, _, _)
GrowSubgraph(subgraph, s, t, weight) ==
    IF ~(subgraph \subseteq vertices /\ subgraph # vertices)
    THEN {[s |-> s, t |-> t, weight |-> weight]}
    ELSE UNION {GrowSubgraph(subgraph \cup {r[1]}, t, r[1], r[2]) :
                  r \in most_tightly_connected_vertex(subgraph)}

\* class Cut
Cut(s, t, weight, cut_edges) ==
    [s |-> s, t |-> t, weight |-> weight, cut_edges |-> cut_edges]

\* Graph.stoer_wagner_once: every Cut it can return
stoer_wagner_once ==
    {Cut(r.s, r.t, r.weight, {e \in edges : r.t \in as_set(e)}) :
        r \in UNION {GrowSubgraph({start}, start, start, None) : start \in vertices}}

\* the edge loop of merge (lines 200-212): weights_in
WeightsIn(v1, v2) ==
    LET touching == {e \in edges :
                       /\ ~(v1 \in as_set(e) /\ v2 \in as_set(e))
                       /\ (to(e, v1) # NoVertex \/ to(e, v2) # NoVertex)}
        other(e) == IF to(e, v1) # NoVertex THEN to(e, v1) ELSE to(e, v2)
        RECURSIVE Total(_)
        Total(es) == IF es = {} THEN 0
                     ELSE LET e == CHOOSE x \in es : TRUE
                          IN  e.weight + Total(es \ {e})
    IN  [vtx \in {other(e) : e \in touching} |->
            Total({e \in touching : other(e) = vtx})]

\* lines 215-217: add_edge(Edge(vtx, joined_name, weight)) for every item
RECURSIVE AddMerged(_, _, _)
AddMerged(g, weights_in, joined_name) ==
    IF DOMAIN weights_in = {} THEN g
    ELSE LET vtx == CHOOSE v \in DOMAIN weights_in : TRUE
             rest == [v \in DOMAIN weights_in \ {vtx} |-> weights_in[v]]
         IN  AddMerged(add_edge(g, SwEdge(vtx, joined_name, weights_in[vtx])),
                       rest, joined_name)

\* A merge that joins the vertices but gives every new edge the weight 1.
merge_unweighted(v1, v2) ==
    LET joined_name == v1 \o "+" \o v2
        to_remove == {e \in edges : v1 \in as_set(e) \/ v2 \in as_set(e)}
        weights_in == WeightsIn(v1, v2)
    IN  AddMerged([vertices |-> (vertices \ {v1, v2}) \cup {joined_name},
                   edges |-> edges \ to_remove],
                  [v \in DOMAIN weights_in |-> 1], joined_name)

\* Graph.merge: the graph after merge(v1, v2)
merge(v1, v2) ==
    LET joined_name == v1 \o "+" \o v2
        to_remove == {e \in edges : v1 \in as_set(e) \/ v2 \in as_set(e)}
    IN  AddMerged([vertices |-> (vertices \ {v1, v2}) \cup {joined_name},
                   edges |-> edges \ to_remove],
                  WeightsIn(v1, v2), joined_name)

\* ---- the input domain: connected graphs of unit-weight wires

RECURSIVE ReachedBy(_, _)
ReachedBy(ws, reached) ==
    LET more == reached \cup {w[2] : w \in {x \in ws : x[1] \in reached}}
                        \cup {w[1] : w \in {x \in ws : x[2] \in reached}}
    IN  IF more = reached THEN reached ELSE ReachedBy(ws, more)

Degree(ws, v) == Cardinality({w \in ws : v \in {w[1], w[2]}})

Renamings(k) == {f \in [1..k -> 1..k] : \A i, j \in 1..k : f[i] = f[j] => i = j}

\* the wires ws with component i renamed to f[i]
Renamed(ws, f) ==
    {IF f[w[1]] < f[w[2]] THEN <<f[w[1]], f[w[2]]>> ELSE <<f[w[2]], f[w[1]]>> : w \in ws}

\* A comes before B: the first wire that is in only one of them is in A
Before(A, B) ==
    \E p \in A \ B : \A q \in B \ A : p[1] < q[1] \/ (p[1] = q[1] /\ p[2] < q[2])

\* The wire lists over components 1..k that make one connected graph.  The
\* names of the components carry no meaning, so of the lists that differ
\* only in the names the model keeps one: the components are numbered by
\* falling degree, and no renaming within equal degrees comes before it.
WireSets(k) ==
    LET Pairs == {p \in (1..k) \X (1..k) : p[1] < p[2]}
        Sorted == {ws \in SUBSET Pairs :
                     /\ \A i \in 1..(k - 1) : Degree(ws, i) >= Degree(ws, i + 1)
                     /\ ReachedBy(ws, {1}) = 1..k}
        perms == Renamings(k)
    IN  {ws \in Sorted :
           \A f \in perms :
              (\A i \in 1..k : Degree(ws, f[i]) = Degree(ws, i))
              => ~Before(Renamed(ws, f), ws)}

\* the lines of the input file, a wire per pair
Wires(ws) == {<<ComponentNames[w[1]], ComponentNames[w[2]]>> : w \in ws}

SwInit ==
    /\ \E k \in 2..NumComponents : \E ws \in WireSets(k) :
          /\ vertices = GraphOfWires(Wires(ws)).vertices
          /\ edges = GraphOfWires(Wires(ws)).edges
    /\ orig_vertices = {} /\ orig_edges = {}
    /\ best_cut = None /\ sw_phases = 0 /\ sw_pc = "call" /\ sw_result = None
    /\ NotSwIdle

\* lines 221-224: entry of stoer_wagner_alg
SwEnter ==
    /\ sw_pc = "call"
    /\ orig_vertices' = vertices
    /\ orig_edges' = edges
    /\ best_cut' = Cut("", "", SW_INFINITY, {})
    /\ sw_pc' = "loop"
    /\ UNCHANGED <<vertices, edges, sw_phases, sw_result, notSwVars>>

\* lines 226-239: one round of the while loop
SwRound ==
    /\ sw_pc = "loop"
    /\ Cardinality(vertices) > 1
    /\ \E cut \in stoer_wagner_once :
          LET best == IF cut.weight < best_cut.weight THEN cut
                      ELSE IF /\ cut.weight = best_cut.weight
                              /\ Cardinality(best_cut.cut_edges) # 3
                           THEN cut
                           ELSE best_cut
          IN  /\ best_cut' = best
              /\ sw_phases' = sw_phases + 1
              /\ IF cut.weight = 3 /\ Cardinality(best.cut_edges) = 3
                 THEN /\ sw_pc' = "after_loop"
                      /\ UNCHANGED <<vertices, edges>>
                 ELSE /\ vertices' = merge(cut.s, cut.t).vertices
                      /\ edges' = merge(cut.s, cut.t).edges
                      /\ sw_pc' = "loop"
    /\ UNCHANGED <<orig_vertices, orig_edges, sw_result, notSwVars>>

\* lines 240-242: the loop is left; restore the graph, return best_cut
SwReturn ==
    /\ \/ sw_pc = "after_loop"
       \/ sw_pc = "loop" /\ Cardinality(vertices) <= 1
    /\ vertices' = orig_vertices
    /\ edges' = orig_edges
    /\ sw_result' = best_cut
    /\ sw_pc' = "returned"
    /\ UNCHANGED <<orig_vertices, orig_edges, best_cut, sw_phases, notSwVars>>

SwNext == SwEnter \/ SwRound \/ SwReturn

SpecSw == SwInit /\ [][SwNext]_vars

\* ---- reference value: the lightest of all cuts of the input graph

\* number of wires between S and the rest
WiresAcross(S) == Cardinality({e \in orig_edges : (e.left \in S) # (e.right \in S)})

MinCutWeight ==
    SetMin({WiresAcross(S) : S \in (SUBSET orig_vertices) \ {{}, orig_vertices}})

-----------------------------------------------------------------------------
(***************************************************************************)
(* The day scripts: what main() writes to standard output                  *)
(* day01/part1.py, day03/part1.py, day19/part1.py                          *)
(*                                                                         *)
(* stdout is the sequence of print() calls; a call is the tuple of its     *)
(* arguments.  An argument is [int |-> n], [str |-> s] or [part |-> p].    *)
(***************************************************************************)

MaxLines == 2

MaxLineLen == 2

Filenames == {"example.txt", "input.txt"}

IntArg(n) == [int |-> n]

StrArg(t) == [str |-> t]

PartArg(p) == [part |-> p]

\* print(a) and print(a, b)
Print1(a) == <<a>>

Print2(a, b) == <<a, b>>

\* string.digits
Digits == <<"0", "1", "2", "3", "4", "5", "6", "7", "8", "9">>

IsDigit(c) == \E i \in 1..Len(Digits) : Digits[i] = c

\* int() of one digit
DigitValue(c) == (CHOOSE i \in 1..Len(Digits) : Digits[i] = c) - 1

\* int() of a string of digits
RECURSIVE IntOfDigits(_)
IntOfDigits(t) ==
    IF Len(t) = 0 THEN 0
    ELSE 10 * IntOfDigits(SubSeq(t, 1, Len(t) - 1)) + DigitValue(t[Len(t)])

\* ---- day01/part1.py

\* get_calibration_value
get_calibration_value(t) ==
    LET digits == SelectSeq(t, IsDigit)
        first_digit == digits[1]
        last_digit == digits[Len(digits)]
    IN  IntOfDigits(<<first_digit, last_digit>>)

\* sum_all_calibration_values
sum_all_calibration_values(lines) ==
    SumSeq([i \in 1..Len(lines) |-> get_calibration_value(lines[i])])

\* the lines of a well-formed calibration document: each holds a digit
Day01Chars == {"1", "2", "a"}

Day01Lines ==
    {t \in UNION {[1..n -> Day01Chars] : n \in 1..MaxLineLen} :
        \E i \in 1..Len(t) : IsDigit(t[i])}

Day01Files == UNION {[1..n -> Day01Lines] : n \in 1..MaxLines}

\* main of day01/part1.py
Day01Main ==
    /\ main_pc = "start" /\ script = "day01/part1"
    /\ stdout' = Append(stdout, Print1(IntArg(sum_all_calibration_values(file))))
    /\ main_pc' = "exited"
    /\ UNCHANGED <<script, filename, file, raised, part_no, cur, out, notRunVars>>

\* ---- day03/part1.py; x and y count from 0 as in the code

\* class Point
D3Point(x, y) == [x |-> x, y |-> y]

\* Point.adjacent_points
Point_adjacent_points(p, max_x, max_y) ==
    LET valid_x == {p.x} \cup (IF p.x > 0 THEN {p.x - 1} ELSE {})
                         \cup (IF p.x < max_x THEN {p.x + 1} ELSE {})
        valid_y == {p.y} \cup (IF p.y > 0 THEN {p.y - 1} ELSE {})
                         \cup (IF p.y < max_y THEN {p.y + 1} ELSE {})
    IN  {D3Point(x, y) : x \in valid_x, y \in valid_y} \ {p}

\* class Number; NoNumber stands for None
Number(n, start_x, end_x, y) == [n |-> n, start_x |-> start_x, end_x |-> end_x, y |-> y]

NoNumber == Number(-1, -1, -1, -1)

\* first_digit_idx
first_digit_idx(t) ==
    SetMin({i - 1 : i \in {j \in 1..Len(t) : IsDigit(t[j])}})

\* the loop of Number.first_in_str (lines 46-50): the leading digits of t
RECURSIVE LeadingDigits(_)
LeadingDigits(t) ==
    IF Len(t) = 0 \/ ~IsDigit(t[1]) THEN <<>>
    ELSE <<t[1]>> \o LeadingDigits(Tail(t))

\* Number.first_in_str
first_in_str(t, y, incr_x_by) ==
    IF ~\E i \in 1..Len(t) : IsDigit(t[i]) THEN NoNumber
    ELSE LET start_x == first_digit_idx(t)
             str_n == LeadingDigits(SubSeq(t, start_x + 1, Len(t)))
             end_x == start_x + Len(str_n)
         IN  Number(IntOfDigits(str_n), start_x + incr_x_by, end_x + incr_x_by, y)

\* Number.adjacent_points
Number_adjacent_points(number, max_x, max_y) ==
    UNION {Point_adjacent_points(D3Point(x, number.y), max_x, max_y) :
             x \in number.start_x..(number.end_x - 1)}

\* not_symbols, is_symbol
not_symbols == {Digits[i] : i \in 1..Len(Digits)} \cup {"."}

is_symbol(char) == char \notin not_symbols

\* find_numbers_in_line: the numbers from column incr_x_by on
RECURSIVE FindNumbersFrom(_, _, _)
FindNumbersFrom(line, y, incr_x_by) ==
    LET number == first_in_str(SubSeq(line, incr_x_by + 1, Len(line)), y, incr_x_by)
    IN  IF number = NoNumber THEN <<>>
        ELSE <<number>> \o FindNumbersFrom(line, y, number.end_x)

find_numbers_in_line(line, y) == FindNumbersFrom(line, y, 0)

\* parse_schematic, for a schematic whose lines have one length
parse_schematic(schematic) ==
    LET max_x == Len(schematic[Len(schematic)]) - 1
        max_y == Len(schematic) - 1
        counted(number) ==
            \E p \in Number_adjacent_points(number, max_x, max_y) :
                is_symbol(schematic[p.y + 1][p.x + 1])
        line_sum(y) ==
            LET all_numbers == find_numbers_in_line(schematic[y + 1], y)
            IN  SumSeq([i \in 1..Len(all_numbers) |->
                          IF counted(all_numbers[i]) THEN all_numbers[i].n ELSE 0])
    IN  SumSeq([i \in 1..Len(schematic) |-> line_sum(i - 1)])

Day03Chars == {"1", ".", "*"}

Day03Files ==
    UNION {[1..rows -> [1..cols -> Day03Chars]] :
             rows \in 1..MaxLines, cols \in 1..MaxLineLen}

\* A main of day03/part1.py that writes the filename after the answer.
Day03Main_filename_last ==
    /\ main_pc = "start" /\ script = "day03/part1"
    /\ stdout' = stdout \o <<Print1(IntArg(parse_schematic(file))),
                            Print1(StrArg(filename))>>
    /\ main_pc' = "exited"
    /\ UNCHANGED <<script, filename, file, raised, part_no, cur, out, notRunVars>>

\* main of day03/part1.py
Day03Main ==
    /\ main_pc = "start" /\ script = "day03/part1"
    /\ stdout' = stdout \o <<Print1(StrArg(filename)),
                            Print1(IntArg(parse_schematic(file)))>>
    /\ main_pc' = "exited"
    /\ UNCHANGED <<script, filename, file, raised, part_no, cur, out, notRunVars>>

\* ---- day19/part1.py

\* class Status
Status == {"Status.REJECT", "Status.ACCEPT"}

\* class Part
Part(x, m, a, s_) == [x |-> x, m |-> m, a |-> a, s |-> s_]

\* Part.rating
rating(part) == part.x + part.m + part.a + part.s

\* class Condition; NoCondition stands for None
Condition(attr, gt_lt, val) == [attr |-> attr, gt_lt |-> gt_lt, val |-> val]

NoCondition == Condition("", "", 0)

\* Condition.matches
matches(cond, part) ==
    LET attr_val == CASE cond.attr = "x" -> part.x
                      [] cond.attr = "m" -> part.m
                      [] cond.attr = "a" -> part.a
                      [] cond.attr = "s" -> part.s
    IN  IF cond.gt_lt = "<" THEN attr_val < cond.val ELSE attr_val > cond.val

\* class Rule
Rule(cond, _send_to) == [cond |-> cond, _send_to |-> _send_to]

\* Rule.send_to
send_to(rule) ==
    IF rule._send_to = "R" THEN "Status.REJECT"
    ELSE IF rule._send_to = "A" THEN "Status.ACCEPT"
    ELSE rule._send_to

\* Rule.applies_to
applies_to(rule, part) ==
    IF rule.cond = NoCondition THEN TRUE ELSE matches(rule.cond, part)

\* class Workflow
Workflow(name, rules) == [name |-> name, rules |-> rules]

\* Workflow.apply, for a workflow whose last rule has no condition
apply(workflow, part) ==
    LET first == SetMin({i \in 1..Len(workflow.rules) :
                           applies_to(workflow.rules[i], part)})
    IN  send_to(workflow.rules[first])

\* well-formed input: workflow "in" with one conditional rule and a default,
\* workflow "b" with a default; the attributes of a part are 0 or 2
Day19Conditions == {Condition(attr, gt_lt, 1) : attr \in {"x", "m"}, gt_lt \in {"<", ">"}}

Day19Workflows ==
    {[n \in {"in", "b"} |->
        IF n = "in"
        THEN Workflow("in", <<Rule(c, t1), Rule(NoCondition, t2)>>)
        ELSE Workflow("b", <<Rule(NoCondition, t3)>>)] :
        c \in Day19Conditions, t1 \in {"A", "R", "b"}, t2 \in {"A", "R", "b"},
        t3 \in {"A", "R"}}

Day19Parts == {Part(x, m, 0, 0) : x \in {0, 2}, m \in {0, 2}}

Day19Files ==
    {[workflows |-> w, parts |-> ps] :
        w \in Day19Workflows, ps \in UNION {[1..n -> Day19Parts] : n \in 1..MaxLines}}

\* main of day19/part1.py up to the call of score_parts
Day19Main ==
    /\ main_pc = "start" /\ script = "day19/part1"
    /\ stdout' = Append(stdout, Print1(StrArg(filename)))
    /\ part_no' = 1
    /\ out' = 0
    /\ main_pc' = "score_parts"
    /\ UNCHANGED <<script, filename, file, raised, cur, notRunVars>>

\* apply_workflows lines 150-151, called from the loop of score_parts
Day19ApplyWorkflows ==
    /\ main_pc = "score_parts"
    /\ part_no <= Len(file.parts)
    /\ stdout' = Append(stdout, Print2(StrArg("part:"), PartArg(file.parts[part_no])))
    /\ cur' = "in"
    /\ main_pc' = "apply_workflows"
    /\ UNCHANGED <<script, filename, file, raised, part_no, out, notRunVars>>

\* apply_workflows lines 152-154: one round of the while loop
Day19ApplyWorkflow ==
    /\ main_pc = "apply_workflows"
    /\ cur \notin Status
    /\ stdout' = Append(stdout, Print2(StrArg("applying workflow named:"), StrArg(cur)))
    /\ cur' = apply(file.workflows[cur], file.parts[part_no])
    /\ UNCHANGED <<script, filename, file, raised, main_pc, part_no, out, notRunVars>>

\* apply_workflows line 155 and score_parts lines 162-166
Day19ScorePart ==
    /\ main_pc = "apply_workflows"
    /\ cur \in Status
    /\ IF cur = "Status.ACCEPT"
       THEN /\ stdout' = Append(stdout, Print2(StrArg("accepting part"),
                                               PartArg(file.parts[part_no])))
            /\ out' = out + rating(file.parts[part_no])
       ELSE /\ stdout' = Append(stdout, Print2(StrArg("rejecting part"),
                                               PartArg(file.parts[part_no])))
            /\ out' = out
    /\ part_no' = part_no + 1
    /\ main_pc' = "score_parts"
    /\ UNCHANGED <<script, filename, file, raised, cur, notRunVars>>

\* score_parts line 167 and main line 198
Day19PrintAnswer ==
    /\ main_pc = "score_parts"
    /\ part_no > Len(file.parts)
    /\ stdout' = Append(stdout, Print1(IntArg(out)))
    /\ main_pc' = "exited"
    /\ UNCHANGED <<script, filename, file, raised, part_no, cur, out, notRunVars>>

\* ---- one run of one of the scripts on a well-formed file

RunInit ==
    /\ \/ script = "day01/part1" /\ file \in Day01Files
       \/ script = "day03/part1" /\ file \in Day03Files
       \/ script = "day19/part1" /\ file \in Day19Files
    /\ filename \in Filenames
    /\ stdout = <<>>
    /\ main_pc = "start"
    /\ part_no = 0 /\ cur = "" /\ out = 0 /\ raised = ""
    /\ NotRunIdle

RunNext ==
    \/ Day01Main
    \/ Day03Main
    \/ Day19Main
    \/ Day19ApplyWorkflows
    \/ Day19ApplyWorkflow
    \/ Day19ScorePart
    \/ Day19PrintAnswer

SpecRun == RunInit /\ [][RunNext]_vars

\* ---- reference values: the answer of each script for the file

\* the Status a part ends with
RECURSIVE FinalStatus(_, _, _)
FinalStatus(workflows, part, at) ==
    IF at \in Status THEN at
    ELSE FinalStatus(workflows, part, apply(workflows[at], part))

\* number of workflows a part goes through
RECURSIVE WorkflowsApplied(_, _, _)
WorkflowsApplied(workflows, part, at) ==
    IF at \in Status THEN 0
    ELSE 1 + WorkflowsApplied(workflows, part, apply(workflows[at], part))

Answer ==
    CASE script = "day01/part1" -> sum_all_calibration_values(file)
      [] script = "day03/part1" -> parse_schematic(file)
      [] script = "day19/part1" ->
            SumSeq([i \in 1..Len(file.parts) |->
                      IF FinalStatus(file.workflows, file.parts[i], "in") = "Status.ACCEPT"
                      THEN rating(file.parts[i]) ELSE 0])

\* the lines day19/part1.py writes before the answer
Day19TraceLines ==
    1 + SumSeq([i \in 1..Len(file.parts) |->
                  2 + WorkflowsApplied(file.workflows, file.parts[i], "in")])

-----------------------------------------------------------------------------
(***************************************************************************)
(* The day scripts that read their lines with regular expressions          *)
(* day02/part1.py, day02/part2.py, day08/part1.py                          *)
(*                                                                         *)
(* A line is the sequence of its characters.  The files hold well-formed   *)
(* and malformed lines.                                                    *)
(***************************************************************************)

\* the text lit stands in t at position i
HasAt(t, i, lit) ==
    /\ i >= 1
    /\ i + Len(lit) - 1 <= Len(t)
    /\ SubSeq(t, i, i + Len(lit) - 1) = lit

\* \d+ from position i, where a digit stands: the position of its last digit
RECURSIVE DigitRunEnd(_, _)
DigitRunEnd(t, i) ==
    IF i < Len(t) /\ IsDigit(t[i + 1]) THEN DigitRunEnd(t, i + 1) ELSE i

\* str.split(sep) for a separator of one character
RECURSIVE Split(_, _)
Split(t, sep) ==
    IF \A i \in 1..Len(t) : t[i] # sep THEN <<t>>
    ELSE LET i == SetMin({j \in 1..Len(t) : t[j] = sep})
         IN  <<SubSeq(t, 1, i - 1)>> \o Split(SubSeq(t, i + 1, Len(t)), sep)

\* str.strip() of a line without inner white space at its ends
RECURSIVE Strip(_)
Strip(t) ==
    IF Len(t) > 0 /\ t[1] = " " THEN Strip(Tail(t))
    ELSE IF Len(t) > 0 /\ t[Len(t)] = " " THEN Strip(SubSeq(t, 1, Len(t) - 1))
    ELSE t

\* ---- day02/part1.py and day02/part2.py

\* the text after (\d+) in red_re, green_re, blue_re
red_re == <<" ", "r", "e", "d">>

green_re == <<" ", "g", "r", "e", "e", "n">>

blue_re == <<" ", "b", "l", "u", "e">>

\* r.search(s) for r = "(\d+)" followed by the text lit: where the leftmost
\* match starts, 0 for None
CountSearch(lit, t) ==
    LET starts == {i \in 1..Len(t) :
                     IsDigit(t[i]) /\ HasAt(t, DigitRunEnd(t, i) + 1, lit)}
    IN  IF starts = {} THEN 0 ELSE SetMin(starts)

\* _count_from_re
_count_from_re(r, t) ==
    LET m == CountSearch(r, t)
    IN  IF m = 0 THEN 0 ELSE IntOfDigits(SubSeq(t, m, DigitRunEnd(t, m)))

\* Round.from_str
Round_from_str(t) ==
    [red |-> _count_from_re(red_re, t),
     green |-> _count_from_re(green_re, t),
     blue |-> _count_from_re(blue_re, t)]

MAX_RED == 12

MAX_GREEN == 13

MAX_BLUE == 14

\* is_game_possible
is_game_possible(game) ==
    LET rounds == Split(game, ";")
    IN  \A i \in 1..Len(rounds) :
           LET r == Round_from_str(rounds[i])
           IN  ~(r.red > MAX_RED \/ r.green > MAX_GREEN \/ r.blue > MAX_BLUE)

\* _game_id_re.search(game): where the leftmost match starts, 0 for None
GameIdSearch(game) ==
    LET starts == {i \in 1..Len(game) :
                     /\ HasAt(game, i, <<"G", "a", "m", "e", " ">>)
                     /\ i + 5 <= Len(game) /\ IsDigit(game[i + 5])
                     /\ HasAt(game, DigitRunEnd(game, i + 5) + 1, <<":">>)}
    IN  IF starts = {} THEN 0 ELSE SetMin(starts)

\* get_game_id: the exception raised, or the value returned
get_game_id(game) ==
    LET m == GameIdSearch(game)
    IN  IF m = 0 THEN [raised |-> "RuntimeError", value |-> 0]
        ELSE [raised |-> "",
              value |-> IntOfDigits(SubSeq(game, m + 5, DigitRunEnd(game, m + 5)))]

\* sum_valid_ids_in_file: the loop over the lines, from sum_game_ids on
RECURSIVE SumValidIds(_, _)
SumValidIds(lines, sum_game_ids) ==
    IF Len(lines) = 0 THEN [raised |-> "", value |-> sum_game_ids]
    ELSE IF is_game_possible(Head(lines))
         THEN IF get_game_id(Head(lines)).raised # ""
              THEN get_game_id(Head(lines))
              ELSE SumValidIds(Tail(lines), sum_game_ids + get_game_id(Head(lines)).value)
         ELSE SumValidIds(Tail(lines), sum_game_ids)

sum_valid_ids_in_file(lines) == SumValidIds(lines, 0)

\* Game.from_str of part 2: the largest count of each colour
Game_from_str(t) ==
    LET all_round_strs == Split(t, ";")
        r(i) == Round_from_str(all_round_strs[i])
        Largest(S) == CHOOSE x \in S : \A y \in S : y <= x
    IN  [min_red |-> Largest({0} \cup {r(i).red : i \in 1..Len(all_round_strs)}),
         min_green |-> Largest({0} \cup {r(i).green : i \in 1..Len(all_round_strs)}),
         min_blue |-> Largest({0} \cup {r(i).blue : i \in 1..Len(all_round_strs)})]

\* Game.power
power(g) == g.min_red * g.min_green * g.min_blue

\* sum_game_powers_in_file
sum_game_powers_in_file(lines) ==
    SumSeq([i \in 1..Len(lines) |-> power(Game_from_str(lines[i]))])

\* the lines of the files: a head and a body
Day02GoodHeads == {<<"G", "a", "m", "e", " ", "1", ":">>, <<"G", "a", "m", "e", " ", "1", "2", ":">>}

Day02BadHeads == {<<>>, <<"G", "a", "m", "e", " ", "x", ":">>}

Day02GoodBodies ==
    {<<" ", "3", " ", "r", "e", "d", ",", " ", "2", " ", "g", "r", "e", "e", "n", ",", " ", "1", " ", "b", "l", "u", "e">>,
     <<" ", "1", "3", " ", "r", "e", "d", ",", " ", "1", " ", "g", "r", "e", "e", "n", ",", " ", "1", " ", "b", "l", "u", "e">>,
     <<" ", "1", " ", "r", "e", "d", ",", " ", "1", " ", "g", "r", "e", "e", "n", ";", " ", "2", " ", "b", "l", "u", "e">>}

Day02BadBodies == {<<>>, <<" ", "r", "e", "d", " ", "3", ",", " ", "1", "5", " ", "b", "l", "u", "e">>}

Day02WellFormedLines == {h \o b : h \in Day02GoodHeads, b \in Day02GoodBodies}

Day02Lines ==
    {h \o b : h \in Day02GoodHeads \cup Day02BadHeads,
              b \in Day02GoodBodies \cup Day02BadBodies}

Day02Files == UNION {[1..n -> Day02Lines] : n \in 1..MaxLines}

\* main of day02/part1.py
Day02Part1Main ==
    /\ main_pc = "start" /\ script = "day02/part1"
    /\ LET r == sum_valid_ids_in_file(file)
       IN  IF r.raised # ""
           THEN /\ raised' = r.raised
                /\ main_pc' = "raised"
                /\ stdout' = stdout
           ELSE /\ raised' = raised
                /\ main_pc' = "exited"
                /\ stdout' = Append(stdout, Print1(IntArg(r.value)))
    /\ UNCHANGED <<script, filename, file, part_no, cur, out, notRunVars>>

\* main of day02/part2.py
Day02Part2Main ==
    /\ main_pc = "start" /\ script = "day02/part2"
    /\ stdout' = Append(stdout, Print1(IntArg(sum_game_powers_in_file(file))))
    /\ main_pc' = "exited"
    /\ UNCHANGED <<script, filename, file, raised, part_no, cur, out, notRunVars>>

\* ---- day08/part1.py

\* A search that takes the whole line or nothing.
NodeFullMatch(t) ==
    IF /\ Len(t) = 16
       /\ HasAt(t, 4, <<" ", "=", " ", "(">>)
       /\ HasAt(t, 11, <<",", " ">>)
       /\ HasAt(t, 16, <<")">>)
    THEN 1 ELSE 0

\* _node_re.search(s): where the leftmost match starts, 0 for None;
\* "." stands for any character of the line
node_re_search(t) ==
    LET starts == {i \in 1..Len(t) :
                     /\ i + 15 <= Len(t)
                     /\ HasAt(t, i + 3, <<" ", "=", " ", "(">>)
                     /\ HasAt(t, i + 10, <<",", " ">>)
                     /\ HasAt(t, i + 15, <<")">>)}
    IN  IF starts = {} THEN 0 ELSE SetMin(starts)

\* class Node
Node(name, left, right) == [name |-> name, left |-> left, right |-> right]

\* Node.from_str: the exception raised, or the Node returned
Node_from_str(t) ==
    LET m == node_re_search(t)
    IN  IF m = 0 THEN [raised |-> "RuntimeError", node |-> Node(<<>>, <<>>, <<>>)]
        ELSE [raised |-> "",
              node |-> Node(SubSeq(t, m, m + 2), SubSeq(t, m + 7, m + 9),
                            SubSeq(t, m + 12, m + 14))]

\* file_to_network lines 69-72 with Network.add_node: the loop over the lines
\* after the first, from the nodes added so far; nodes maps names to Nodes
RECURSIVE AddNodes(_, _)
AddNodes(lines, nodes_) ==
    IF Len(lines) = 0 THEN [raised |-> "", nodes |-> nodes_]
    ELSE LET sl == Strip(Head(lines))
             n == Node_from_str(sl)
         IN  IF sl = <<>> THEN AddNodes(Tail(lines), nodes_)
             ELSE IF n.raised # "" THEN [raised |-> n.raised, nodes |-> nodes_]
             ELSE IF n.node.name \in DOMAIN nodes_
                  THEN [raised |-> "ValueError", nodes |-> nodes_]
             ELSE AddNodes(Tail(lines),
                           [k \in DOMAIN nodes_ \cup {n.node.name} |->
                               IF k = n.node.name THEN n.node ELSE nodes_[k]])

\* file_to_network
file_to_network(lines) ==
    LET r == AddNodes(Tail(lines), <<>>)
    IN  [raised |-> r.raised, directions |-> Strip(lines[1]), nodes |-> r.nodes]

\* Network.walk_to_zzz: the while loop from cur on; dir_idx counts from 0
RECURSIVE WalkToZzz(_, _, _, _)
WalkToZzz(network, at, dir_idx, steps_taken) ==
    IF at \notin DOMAIN network.nodes THEN [raised |-> "KeyError", value |-> 0]
    ELSE IF at = <<"Z", "Z", "Z">> THEN [raised |-> "", value |-> steps_taken]
    ELSE WalkToZzz(network,
                   IF network.directions[dir_idx + 1] = "L"
                   THEN network.nodes[at].left ELSE network.nodes[at].right,
                   IF dir_idx + 1 = Len(network.directions) THEN 0 ELSE dir_idx + 1,
                   steps_taken + 1)

walk_to_zzz(network) == WalkToZzz(network, <<"A", "A", "A">>, 0, 0)

\* the lines of the files: the directions, then node lines
Day08Directions == {<<"R">>, <<"L", "R">>}

Day08WellFormedLines ==
    {<<"A", "A", "A", " ", "=", " ", "(", "Z", "Z", "Z", ",", " ", "Z", "Z", "Z", ")">>, <<"A", "A", "A", " ", "=", " ", "(", "A", "A", "A", ",", " ", "Z", "Z", "Z", ")">>, <<"Z", "Z", "Z", " ", "=", " ", "(", "Z", "Z", "Z", ",", " ", "Z", "Z", "Z", ")">>, <<>>}

Day08MalformedLines ==
    {<<"A", "A", "A", " ", "=", " ", "Z", "Z", "Z", ",", " ", "Z", "Z", "Z">>, <<"Z", "Z", "Z", " ", "=", " ", "(", "Z", "Z", "Z", ",", "Z", "Z", "Z", ")">>, <<"x", "A", "A", "A", " ", "=", " ", "(", "Z", "Z", "Z", ",", " ", "Z", "Z", "Z", ")", "y">>}

Day08Files ==
    {<<d>> \o ls :
        d \in Day08Directions,
        ls \in UNION {[1..n -> Day08WellFormedLines \cup Day08MalformedLines] :
                        n \in 1..MaxLines}}

\* main of day08/part1.py
Day08Main ==
    /\ main_pc = "start" /\ script = "day08/part1"
    /\ LET network == file_to_network(file)
           r == IF network.raised # "" THEN [raised |-> network.raised, value |-> 0]
                ELSE walk_to_zzz(network)
       IN  IF r.raised # ""
           THEN /\ raised' = r.raised
                /\ main_pc' = "raised"
                /\ stdout' = Append(stdout, Print1(StrArg(filename)))
           ELSE /\ raised' = raised
                /\ main_pc' = "exited"
                /\ stdout' = stdout \o <<Print1(StrArg(filename)),
                                        Print1(IntArg(r.value))>>
    /\ UNCHANGED <<script, filename, file, part_no, cur, out, notRunVars>>

\* ---- one run of one of the scripts on a file of such lines

ParseInit ==
    /\ \/ script = "day02/part1" /\ file \in Day02Files
       \/ script = "day02/part2" /\ file \in Day02Files
       \/ script = "day08/part1" /\ file \in Day08Files
    /\ filename \in Filenames
    /\ stdout = <<>>
    /\ main_pc = "start"
    /\ part_no = 0 /\ cur = "" /\ out = 0 /\ raised = ""
    /\ NotRunIdle

ParseNext == Day02Part1Main \/ Day02Part2Main \/ Day08Main

SpecParse == ParseInit /\ [][ParseNext]_vars

\* ---- reference: what a line holds

\* "Game ", digits, ":" stand somewhere in the line
ContainsGameId(t) ==
    \E i \in 1..Len(t) : \E j \in (i + 5)..(Len(t) - 1) :
        /\ SubSeq(t, i, i + 4) = <<"G", "a", "m", "e", " ">>
        /\ \A k \in (i + 5)..j : IsDigit(t[k])
        /\ t[j + 1] = ":"

\* three characters, " = (", three characters, ", ", three characters, ")"
\* stand somewhere in the line
ContainsNodeShape(t) ==
    \E i \in 1..(Len(t) - 15) :
        /\ SubSeq(t, i + 3, i + 6) = <<" ", "=", " ", "(">>
        /\ SubSeq(t, i + 10, i + 11) = <<",", " ">>
        /\ t[i + 15] = ")"

\* a line of the file is not of the puzzle's format
HasMalformedLine ==
    \/ /\ script \in {"day02/part1", "day02/part2"}
       /\ \E k \in 1..Len(file) : file[k] \notin Day02WellFormedLines
    \/ /\ script = "day08/part1"
       /\ \E k \in 2..Len(file) : file[k] \notin Day08WellFormedLines

\* an answer was written
AnswerWritten == \E i \in 1..Len(stdout) : "int" \in DOMAIN stdout[i][1]

-----------------------------------------------------------------------------
(***************************************************************************)
(* day17/part2.py: City.walk, City.move_and_add_state                      *)
(*                                                                         *)
(* Rows and columns count from 0 as in the code.  seen_cost_by_state is a  *)
(* function from States to costs, state_queues_by_cost a function from     *)
(* costs to lists of States.                                               *)
(***************************************************************************)

\* class Dir
Dirs == {"LEFT", "RIGHT", "UP", "DOWN"}

\* Dir.turns
turns(d) == IF d \in {"LEFT", "RIGHT"} THEN <<"UP", "DOWN">> ELSE <<"LEFT", "RIGHT">>

\* take_step
take_step(row, col, step_dir) ==
    CASE step_dir = "LEFT" -> <<row, col - 1>>
      [] step_dir = "RIGHT" -> <<row, col + 1>>
      [] step_dir = "UP" -> <<row - 1, col>>
      [] step_dir = "DOWN" -> <<row + 1, col>>

\* class State
State(row, col, going, distance) ==
    [row |-> row, col |-> col, going |-> going, distance |-> distance]

\* City.height, City.width, City.end_row, City.end_col as _set_max leaves them
CityHeight == Len(grid)

CityWidth == Len(grid[1])

end_row == CityHeight - 1

end_col == CityWidth - 1

\* None as the result of move_and_add_state
NoCost == -1

\* A move_and_add_state that takes the end block after a run of any length.
move_and_add_state_any_run(state, cost, seen, queues) ==
    LET new == take_step(state.row, state.col, state.going)
        new_row == new[1]
        new_col == new[2]
    IN  IF new_row < 0 \/ new_col < 0 \/ new_row >= CityHeight \/ new_col >= CityWidth
        THEN [res |-> NoCost, seen |-> seen, queues |-> queues]
        ELSE LET new_cost == cost + grid[new_row + 1][new_col + 1]
                 new_state == State(new_row, new_col, state.going, state.distance)
             IN  IF new_row = end_row /\ new_col = end_col
                 THEN [res |-> new_cost, seen |-> seen, queues |-> queues]
                 ELSE IF new_state \notin DOMAIN seen
                 THEN [res |-> NoCost,
                       seen |-> (new_state :> new_cost) @@ seen,
                       queues |-> IF new_cost \in DOMAIN queues
                                  THEN [queues EXCEPT ![new_cost] = Append(@, new_state)]
                                  ELSE (new_cost :> <<new_state>>) @@ queues]
                 ELSE [res |-> NoCost, seen |-> seen, queues |-> queues]

\* City.move_and_add_state: what it returns, and the two dicts after it
move_and_add_state(state, cost, seen, queues) ==
    LET new == take_step(state.row, state.col, state.going)
        new_row == new[1]
        new_col == new[2]
    IN  IF new_row < 0 \/ new_col < 0 \/ new_row >= CityHeight \/ new_col >= CityWidth
        THEN [res |-> NoCost, seen |-> seen, queues |-> queues]
        ELSE LET new_cost == cost + grid[new_row + 1][new_col + 1]
                 new_state == State(new_row, new_col, state.going, state.distance)
             IN  IF new_row = end_row /\ new_col = end_col /\ state.distance >= 4
                 THEN [res |-> new_cost, seen |-> seen, queues |-> queues]
                 ELSE IF new_state \notin DOMAIN seen
                 THEN [res |-> NoCost,
                       seen |-> (new_state :> new_cost) @@ seen,
                       queues |-> IF new_cost \in DOMAIN queues
                                  THEN [queues EXCEPT ![new_cost] = Append(@, new_state)]
                                  ELSE (new_cost :> <<new_state>>) @@ queues]
                 ELSE [res |-> NoCost, seen |-> seen, queues |-> queues]

\* walk lines 155-165: bonus_states of one state
bonus_states(state) ==
    (IF state.distance >= 4
     THEN <<State(state.row, state.col, turns(state.going)[1], 1),
            State(state.row, state.col, turns(state.going)[2], 1)>>
     ELSE <<>>)
    \o (IF state.distance < 10
        THEN <<State(state.row, state.col, state.going, state.distance + 1)>>
        ELSE <<>>)

\* the bonus_states of all next_states, in the order the loops reach them
RECURSIVE AllBonusStates(_)
AllBonusStates(next_states) ==
    IF Len(next_states) = 0 THEN <<>>
    ELSE bonus_states(Head(next_states)) \o AllBonusStates(Tail(next_states))

\* walk lines 154-172: move_and_add_state for each bonus state until one
\* returns a cost
RECURSIVE MoveAll(_, _, _, _)
MoveAll(states, cost, seen, queues) ==
    IF Len(states) = 0 THEN [res |-> NoCost, seen |-> seen, queues |-> queues]
    ELSE LET r == move_and_add_state(Head(states), cost, seen, queues)
         IN  IF r.res # NoCost THEN r
             ELSE MoveAll(Tail(states), cost, r.seen, r.queues)

\* ---- the cities walked: every block costs 1, but for one costly block, or
\* one on the top row and one on the bottom row

MaxStrip == 12

MaxBlockWidth == 9

\* the cost of the costly block
CostlyCost == 3

\* the blocks of a city of h rows and w columns, as <<row, col>> from 0
Blocks(h, w) == (0..(h - 1)) \X (0..(w - 1))

\* the grid of h rows and w columns in which the blocks of S are costly
CityGrid(h, w, S) ==
    [r \in 1..h |-> [c \in 1..w |-> IF <<r - 1, c - 1>> \in S THEN CostlyCost ELSE 1]]

\* cities of one row, and cities of five rows: in the first the crucible
\* cannot turn, in the second a run of 4 blocks spans the height
CityGrids ==
    {CityGrid(1, w, {}) : w \in 1..MaxStrip}
    \cup UNION {{CityGrid(5, w, S) :
                   S \in {{}} \cup {{b} : b \in Blocks(5, w)}
                          \cup {{<<0, c1>>, <<4, c2>>} : c1, c2 \in 0..(w - 1)}} :
                w \in 5..MaxBlockWidth}

CityInit ==
    /\ grid \in CityGrids
    /\ seen_cost_by_state = <<>>
    /\ state_queues_by_cost = <<>>
    /\ walk_pc = "call"
    /\ walk_result = None
    /\ NotCityIdle

\* walk lines 144-148
WalkStart ==
    /\ walk_pc = "call"
    /\ LET down == move_and_add_state(State(0, 0, "DOWN", 1), 0, <<>>, <<>>)
           right == move_and_add_state(State(0, 0, "RIGHT", 1), 0, down.seen, down.queues)
       IN  /\ seen_cost_by_state' = right.seen
           /\ state_queues_by_cost' = right.queues
    /\ walk_pc' = "loop"
    /\ UNCHANGED <<grid, walk_result, notCityVars>>

\* walk lines 151-172: one round of the while loop
WalkRound ==
    /\ walk_pc = "loop"
    /\ DOMAIN state_queues_by_cost # {}
    /\ LET cur_cost_ == SetMin(DOMAIN state_queues_by_cost)
           next_states == state_queues_by_cost[cur_cost_]
           popped == [k \in DOMAIN state_queues_by_cost \ {cur_cost_} |->
                        state_queues_by_cost[k]]
           r == MoveAll(AllBonusStates(next_states), cur_cost_,
                        seen_cost_by_state, popped)
       IN  /\ seen_cost_by_state' = r.seen
           /\ state_queues_by_cost' = r.queues
           /\ IF r.res # NoCost
              THEN walk_pc' = "returned" /\ walk_result' = r.res
              ELSE walk_pc' = "loop" /\ walk_result' = walk_result
    /\ UNCHANGED <<grid, notCityVars>>

\* walk line 151 when no state is queued: min() of an empty sequence
WalkRaise ==
    /\ walk_pc = "loop"
    /\ DOMAIN state_queues_by_cost = {}
    /\ walk_pc' = "ValueError"
    /\ UNCHANGED <<grid, seen_cost_by_state, state_queues_by_cost, walk_result,
                   notCityVars>>

CityNext == WalkStart \/ WalkRound \/ WalkRaise

SpecCity == CityInit /\ [][CityNext]_vars

\* ---- reference value: the least heat loss, from the paths themselves

\* A path is a chain of straight runs of 4 to 10 blocks, each at a right
\* angle to the one before.  f[r][c][d] is the least heat lost by such a
\* chain from the top-left block whose last run ends on row r, column c
\* (from 1 here) in direction d (1 left, 2 right, 3 up, 4 down).

\* above the heat loss of every path that is worth taking
Unreached == 1 + 9 * 4 * Len(grid) * Len(grid[1])

\* the heat lost on the k blocks entered by a run in direction d that ends on
\* row r, column c
RECURSIVE RunLoss(_, _, _, _)
RunLoss(r, c, d, k) ==
    IF k = 0 THEN 0
    ELSE grid[r][c] + RunLoss(CASE d = 3 -> r + 1 [] d = 4 -> r - 1 [] OTHER -> r,
                              CASE d = 1 -> c + 1 [] d = 2 -> c - 1 [] OTHER -> c,
                              d, k - 1)

\* the least heat lost by a chain that ends with a run of k blocks in direction
\* d onto row r, column c, given the losses f of the shorter chains
LossByRun(f, r, c, d, k) ==
    LET sr == CASE d = 3 -> r + k [] d = 4 -> r - k [] OTHER -> r
        sc == CASE d = 1 -> c + k [] d = 2 -> c - k [] OTHER -> c
    IN  IF sr < 1 \/ sr > Len(grid) \/ sc < 1 \/ sc > Len(grid[1]) THEN Unreached
        ELSE LET before == Min2(IF sr = 1 /\ sc = 1 THEN 0 ELSE Unreached,
                                IF d \in {1, 2} THEN Min2(f[sr][sc][3], f[sr][sc][4])
                                ELSE Min2(f[sr][sc][1], f[sr][sc][2]))
             IN  Min2(Unreached, before + RunLoss(r, c, d, k))

\* the losses with one more run allowed
OneMoreRun(f) ==
    [r \in 1..Len(grid) |-> [c \in 1..Len(grid[1]) |-> [d \in 1..4 |->
        SetMin({f[r][c][d]} \cup {LossByRun(f, r, c, d, k) : k \in 4..10})]]]

RECURSIVE LeastLosses(_)
LeastLosses(f) ==
    LET g == OneMoreRun(f)
    IN  IF g = f THEN f ELSE LeastLosses(g)

\* the least heat loss of a path onto the end block; Unreached if there is none
MinHeatLoss ==
    LET f == LeastLosses([r \in 1..Len(grid) |-> [c \in 1..Len(grid[1]) |->
                            [d \in 1..4 |-> Unreached]]])
    IN  SetMin({f[Len(grid)][Len(grid[1])][d] : d \in 1..4})

-----------------------------------------------------------------------------
(* src/day23: Map, the exhaustive visit of both parts, and the junction     *)
(* graph search of part 2.  Points are [row, col] records counted from 0,   *)
(* tiles hold the characters of the file.                                   *)

SetMax(S) == CHOOSE x \in S : \A y \in S : x >= y

\* every order in which the members of a set can be iterated
Orderings(S) ==
    {s \in [1..Cardinality(S) -> S] : \A i, j \in DOMAIN s : s[i] = s[j] => i = j}

\* aoc_tools/graph.py Dir.reverse lines 25-35
reverse(d) ==
    CASE d = "LEFT" -> "RIGHT"
      [] d = "RIGHT" -> "LEFT"
      [] d = "UP" -> "DOWN"
      [] d = "DOWN" -> "UP"

\* aoc_tools/graph.py Point.go lines 64-74, n = 1
go(p, direction) ==
    CASE direction = "LEFT" -> [row |-> p.row, col |-> p.col - 1]
      [] direction = "RIGHT" -> [row |-> p.row, col |-> p.col + 1]
      [] direction = "UP" -> [row |-> p.row - 1, col |-> p.col]
      [] direction = "DOWN" -> [row |-> p.row + 1, col |-> p.col]

\* aoc_tools/graph.py Point.valid lines 76-83
valid(p, mr, mc) == p.row >= 0 /\ p.row <= mr /\ p.col >= 0 /\ p.col <= mc

max_row == Len(tiles) - 1
max_col == Len(tiles[1]) - 1
TileAt(p) == tiles[p.row + 1][p.col + 1]

\* Tile.visitable
visitable(t) == t # "#"

\* Map.is_valid, the same in both parts
is_valid(p) ==
    IF ~valid(p, max_row, max_col) THEN FALSE ELSE visitable(TileAt(p))

\* ---- part 1

\* part1.py Tile.valid_dirs lines 24-38
Tile1_valid_dirs(t) ==
    CASE t = "." -> {"LEFT", "RIGHT", "UP", "DOWN"}
      [] t = "#" -> {}
      [] t = "^" -> {"UP"}
      [] t = "<" -> {"LEFT"}
      [] t = ">" -> {"RIGHT"}
      [] t = "v" -> {"DOWN"}

PathCols(r) == {c \in 0..max_col : tiles[r + 1][c + 1] = "."}

\* part1.py Map.start_point lines 67-73; the domain has a path tile in the
\* top row, so the RuntimeError of line 73 is not raised
Map1_start_point == [row |-> 0, col |-> SetMin(PathCols(0))]

\* part1.py Map.end_point lines 75-78
Map1_end_point == [row |-> max_row, col |-> max_col]

\* part1.py Map.neighbors lines 87-95
Map1_neighbors(p) ==
    {n \in {go(p, d) : d \in Tile1_valid_dirs(TileAt(p))} : is_valid(n)}

\* part1.py Map.visit lines 97-110
RECURSIVE Map1_visit(_, _, _)
Map1_visit(point, path, cost) ==
    IF point = Map1_end_point
    THEN cost
    ELSE SetMax({cost} \cup {Map1_visit(n, path \cup {n}, cost + 1) :
                                n \in Map1_neighbors(point) \ path})

\* part1.py Map.take_a_hike lines 112-115
Map1_take_a_hike == Map1_visit(Map1_start_point, {Map1_start_point}, 0)

\* ---- part 2

\* part2.py Tile.valid_dirs lines 28-32
Tile2_valid_dirs(t) == IF t = "#" THEN {} ELSE {"LEFT", "RIGHT", "UP", "DOWN"}

\* part2.py Map._set_max lines 82-87, run at every add_row: the first path
\* tile of the top row, (0, 0) while there is none
Map2_start_point ==
    IF PathCols(0) = {}
    THEN [row |-> 0, col |-> 0]
    ELSE [row |-> 0, col |-> SetMin(PathCols(0))]

\* part2.py Map._set_max lines 89-94, run at every add_row: the last path
\* tile of the last row added that has one, (0, 0) while there is none
Map2_end_point ==
    LET rows == {r \in 0..max_row : PathCols(r) # {}}
    IN  IF rows = {}
        THEN [row |-> 0, col |-> 0]
        ELSE [row |-> SetMax(rows), col |-> SetMax(PathCols(SetMax(rows)))]

\* part2.py Map.neighbors lines 128-136
Map2_neighbors(p) ==
    {n \in {go(p, d) : d \in Tile2_valid_dirs(TileAt(p))} : is_valid(n)}

\* part2.py Map.visit lines 138-161, the cost it returns
RECURSIVE Map2_visit(_, _, _)
Map2_visit(point, path, cost) ==
    IF point = Map2_end_point
    THEN cost
    ELSE SetMax({-1} \cup {Map2_visit(n, path \cup {n}, cost + 1) :
                              n \in Map2_neighbors(point) \ path})

\* part2.py find_nodes lines 189-195
next_dirs_at(cur_pos, cur_dir) ==
    {new_dir \in Dirs \ {reverse(cur_dir)} : is_valid(go(cur_pos, new_dir))}

\* part2.py find_nodes lines 186-205, the inner loop: walks from pos in
\* cur_dir to the next node.  The loop has no state but its position, its
\* direction and the step counter, so once a (position, direction) comes
\* back the walk never ends; been holds the pairs walked from so far.
RECURSIVE FollowPath(_, _, _, _)
FollowPath(pos, cur_dir, walked, been) ==
    LET steps == walked + 1
        cur_pos == go(pos, cur_dir)
        next_dirs == next_dirs_at(cur_pos, cur_dir)
    IN  IF Cardinality(next_dirs) > 1 \/ cur_pos = Map2_end_point
        THEN [kind |-> "node", to_node |-> cur_pos, steps |-> steps,
              cur_dir |-> cur_dir, next_dirs |-> next_dirs]
        ELSE IF next_dirs = {}
        THEN [kind |-> "IndexError"]
        ELSE LET d == CHOOSE nd \in next_dirs : TRUE
             IN  IF <<cur_pos, d>> \in been
                 THEN [kind |-> "forever"]
                 ELSE FollowPath(cur_pos, d, steps, been \cup {<<cur_pos, d>>})

\* part2.py State lines 42-47
HikeState(at, cost, visited) == [at |-> at, cost |-> cost, visited |-> visited]

\* part2.py CacheKey lines 51-55
CacheKey(at, visited) == [at |-> at, visited |-> visited]

\* cache.get(key, -1)
CacheGet(cache, key) == IF key \in DOMAIN cache THEN cache[key] ELSE -1

\* nodes[at] of the defaultdict: what was appended under at, in order
NodesOf(at) ==
    LET mine == SelectSeq(hike_nodes, LAMBDA e : e[1] = at)
    IN  [i \in 1..Len(mine) |-> <<mine[i][2], mine[i][3]>>]

\* part2.py take_a_hike lines 238-245: the states queued for the nodes next
\* to state.at
RECURSIVE QueueNext(_, _, _, _, _)
QueueNext(next, i, state, new_visited, cache) ==
    IF i > Len(next)
    THEN <<>>
    ELSE LET next_node == next[i][1]
             new_steps == state.cost + next[i][2]
             rest == QueueNext(next, i + 1, state, new_visited, cache)
         IN  IF next_node \in new_visited
             THEN rest
             ELSE IF CacheGet(cache, CacheKey(next_node, new_visited)) >= new_steps
             THEN rest
             ELSE <<HikeState(next_node, new_steps, new_visited)>> \o rest

\* ---- the maps hiked: every small map of path and forest tiles with a path
\* tile in its top and in its bottom row, and every map with a forest border,
\* the start above its second column and the end below its last but one
MapSide == 3
HikeTiles == {".", "#"}

OpenMaps(side) ==
    {m \in [1..side -> [1..side -> HikeTiles]] :
        /\ \E c \in 1..side : m[1][c] = "."
        /\ \E c \in 1..side : m[side][c] = "."}

Bordered(inner) ==
    LET n == Len(inner) + 2
    IN  [r \in 1..n |-> [c \in 1..n |->
            IF r \in 2..(n - 1) /\ c \in 2..(n - 1) THEN inner[r - 1][c - 1]
            ELSE IF (r = 1 /\ c = 2) \/ (r = n /\ c = n - 1) THEN "."
            ELSE "#"]]

BorderedMaps(side) == {Bordered(m) : m \in [1..side -> [1..side -> HikeTiles]]}

Maps2(side) == OpenMaps(side) \cup BorderedMaps(side)

Hike2Init ==
    /\ tiles \in Maps2(MapSide)
    /\ dir_queue = <<>>
    /\ explored = {}
    /\ hike_nodes = <<>>
    /\ hike_queue = <<>>
    /\ hike_cache = <<>>
    /\ longest_path = None
    /\ hike_pc = "call"
    /\ NotHikeIdle

\* part2.py take_a_hike lines 210-221 and find_nodes lines 170-178
TakeAHike ==
    /\ hike_pc = "call"
    /\ longest_path' = -1
    /\ hike_queue' = <<HikeState(Map2_start_point, 0, {Map2_start_point})>>
    /\ hike_cache' = <<>>
    /\ explored' = {}
    /\ hike_nodes' = <<>>
    /\ dir_queue' = <<<<Map2_start_point, "DOWN">>>>
    /\ hike_pc' = "find_nodes"
    /\ UNCHANGED <<tiles, notHikeVars>>

\* part2.py find_nodes lines 179-205: one round of the outer loop.  The new
\* directions are queued in the order a set of Dir iterates, which is any.
FindNodesRound ==
    /\ hike_pc = "find_nodes"
    /\ dir_queue # <<>>
    /\ LET from_node == dir_queue[Len(dir_queue)][1]
           cur_dir == dir_queue[Len(dir_queue)][2]
           popped == SubSeq(dir_queue, 1, Len(dir_queue) - 1)
       IN  IF <<from_node, cur_dir>> \in explored
           THEN /\ dir_queue' = popped
                /\ UNCHANGED <<explored, hike_nodes, hike_pc>>
           ELSE LET w == FollowPath(from_node, cur_dir, 0, {<<from_node, cur_dir>>})
                IN  IF w.kind # "node"
                    THEN /\ hike_pc' = w.kind
                         /\ dir_queue' = popped
                         /\ explored' = explored \cup {<<from_node, cur_dir>>}
                         /\ UNCHANGED hike_nodes
                    ELSE LET seen == explored \cup {<<from_node, cur_dir>>,
                                         <<w.to_node, reverse(w.cur_dir)>>}
                             fresh == {d \in w.next_dirs : <<w.to_node, d>> \notin seen}
                         IN  /\ hike_nodes' = hike_nodes \o
                                    <<<<from_node, w.to_node, w.steps>>,
                                      <<w.to_node, from_node, w.steps>>>>
                             /\ explored' = seen
                             /\ \E order \in Orderings(fresh) :
                                  dir_queue' = popped \o
                                      [i \in 1..Len(order) |-> <<w.to_node, order[i]>>]
                             /\ UNCHANGED hike_pc
    /\ UNCHANGED <<tiles, hike_queue, hike_cache, longest_path, notHikeVars>>

\* part2.py find_nodes line 206 and take_a_hike line 222
FindNodesReturn ==
    /\ hike_pc = "find_nodes"
    /\ dir_queue = <<>>
    /\ hike_pc' = "walking"
    /\ UNCHANGED <<tiles, dir_queue, explored, hike_nodes, hike_queue,
                   hike_cache, longest_path, notHikeVars>>

\* part2.py take_a_hike lines 224-246: one round of the loop
HikeRound ==
    /\ hike_pc = "walking"
    /\ hike_queue # <<>>
    /\ LET state == Head(hike_queue)
           key == CacheKey(state.at, state.visited)
       IN  IF state.at = Map2_end_point
           THEN /\ longest_path' = IF state.cost > longest_path
                                   THEN state.cost ELSE longest_path
                /\ hike_queue' = Tail(hike_queue)
                /\ UNCHANGED hike_cache
           ELSE IF CacheGet(hike_cache, key) >= state.cost
           THEN /\ hike_queue' = Tail(hike_queue)
                /\ UNCHANGED <<hike_cache, longest_path>>
           ELSE LET cache == [k \in DOMAIN hike_cache \cup {key} |->
                                 IF k = key THEN state.cost ELSE hike_cache[k]]
                    new_visited == state.visited \cup {state.at}
                IN  /\ hike_cache' = cache
                    /\ hike_queue' = Tail(hike_queue) \o
                           QueueNext(NodesOf(state.at), 1, state, new_visited, cache)
                    /\ UNCHANGED longest_path
    /\ UNCHANGED <<tiles, dir_queue, explored, hike_nodes, hike_pc, notHikeVars>>

\* part2.py take_a_hike line 247
HikeReturn ==
    /\ hike_pc = "walking"
    /\ hike_queue = <<>>
    /\ hike_pc' = "returned"
    /\ UNCHANGED <<tiles, dir_queue, explored, hike_nodes, hike_queue,
                   hike_cache, longest_path, notHikeVars>>

Hike2Next ==
    \/ TakeAHike
    \/ FindNodesRound
    \/ FindNodesReturn
    \/ HikeRound
    \/ HikeReturn

SpecHike2 == Hike2Init /\ [][Hike2Next]_vars

\* ---- the maps hiked by part 1: the small maps of path and forest tiles
\* with a path tile in the top row, and the same with one tile made a slope
Slopes == {"^", "<", ">", "v"}

WithSlope(m, r, c, t) ==
    [i \in DOMAIN m |-> [j \in DOMAIN m[i] |-> IF i = r /\ j = c THEN t ELSE m[i][j]]]

Maps1(side) ==
    LET plain == [1..side -> [1..side -> HikeTiles]]
        sloped == {WithSlope(m, r, c, t) : m \in plain, r \in 1..side,
                                           c \in 1..side, t \in Slopes}
    IN  {m \in plain \cup sloped : \E c \in 1..side : m[1][c] = "."}

Hike1Init ==
    /\ tiles \in Maps1(MapSide)
    /\ dir_queue = <<>>
    /\ explored = {}
    /\ hike_nodes = <<>>
    /\ hike_queue = <<>>
    /\ hike_cache = <<>>
    /\ longest_path = None
    /\ hike_pc = "call"
    /\ NotHikeIdle

\* part1.py parse_file line 125: the call of take_a_hike and its return
TakeAHike1 ==
    /\ hike_pc = "call"
    /\ longest_path' = Map1_take_a_hike
    /\ hike_pc' = "returned"
    /\ UNCHANGED <<tiles, dir_queue, explored, hike_nodes, hike_queue,
                   hike_cache, notHikeVars>>

Hike1Next == TakeAHike1

SpecHike1 == Hike1Init /\ [][Hike1Next]_vars

\* the numbers of steps of the walks from point to part 1's end_point that
\* enter no tile of path and no tile twice and leave every tile in a
\* direction the tile allows
RECURSIVE HikesFrom(_, _)
HikesFrom(point, path) ==
    IF point = Map1_end_point
    THEN {0}
    ELSE UNION {{1 + k : k \in HikesFrom(n, path \cup {n})} :
                   n \in Map1_neighbors(point) \ path}

Hikes == HikesFrom(Map1_start_point, {Map1_start_point})

-----------------------------------------------------------------------------
(* src/day10/part1.py: Cell, Maze and parse_file.  Rows and columns count  *)
(* from 0 as in the source; a line is a sequence of characters.            *)

\* Cell.goes_north .. goes_south lines 31-45
goes_north(shape) == shape \in {"|", "L", "J"}
goes_west(shape) == shape \in {"-", "J", "7"}
goes_east(shape) == shape \in {"-", "L", "F"}
goes_south(shape) == shape \in {"|", "7", "F"}

\* next_dir without the test of where the walk came from
next_dir_back(shape, came_from) ==
    IF goes_north(shape) THEN "NORTH"
    ELSE IF goes_west(shape) THEN "WEST"
    ELSE IF goes_east(shape) THEN "EAST"
    ELSE IF goes_south(shape) THEN "SOUTH"
    ELSE "RuntimeError"

\* Cell.next_dir lines 47-60
next_dir(shape, came_from) ==
    IF goes_north(shape) /\ came_from # "NORTH" THEN "NORTH"
    ELSE IF goes_west(shape) /\ came_from # "WEST" THEN "WEST"
    ELSE IF goes_east(shape) /\ came_from # "EAST" THEN "EAST"
    ELSE IF goes_south(shape) /\ came_from # "SOUTH" THEN "SOUTH"
    ELSE "RuntimeError"

\* Cell.from_char lines 63-73, for the characters it accepts
from_char(char) ==
    [shape |-> char, is_start |-> char = "S", reachable_from_start |-> char = "S"]

\* Cell.reachable_char lines 75-81
reachable_char(cell) ==
    IF cell.shape = "." THEN "."
    ELSE IF cell.reachable_from_start THEN "T" ELSE "F"

\* Maze.from_strs lines 93-108: the cells
CellsOf(rows) == [i \in DOMAIN rows |-> [j \in DOMAIN rows[i] |-> from_char(rows[i][j])]]

\* Maze.from_strs lines 95-106: the last S read, (0, 0) when there is none
StartOf(rows) ==
    LET at == {rc \in (0..(Len(rows) - 1)) \X (0..(Len(rows[1]) - 1)) :
                  rows[rc[1] + 1][rc[2] + 1] = "S"}
    IN  IF at = {}
        THEN <<0, 0>>
        ELSE CHOOSE rc \in at : \A o \in at :
                 rc[1] > o[1] \/ (rc[1] = o[1] /\ rc[2] >= o[2])

start_row == maze_start[1]
start_col == maze_start[2]

\* a list index as Python takes it: negative indices count from the end
ListIndex(i, n) == IF i < 0 THEN i + n ELSE i
InList(i, n) == i >= -n /\ i < n

\* self.cells[row_idx][col_idx], where the indices are in range
CellAt(cs, row_idx, col_idx) ==
    cs[ListIndex(row_idx, Len(cs)) + 1][ListIndex(col_idx, Len(cs[1])) + 1]
HasCell(cs, row_idx, col_idx) ==
    InList(row_idx, Len(cs)) /\ InList(col_idx, Len(cs[1]))

\* Maze.find_start_shape lines 122-157
find_start_shape ==
    LET north == start_row # 0
                 /\ goes_south(CellAt(cells, start_row - 1, start_col).shape)
        south == start_row < Len(cells) - 1
                 /\ goes_north(CellAt(cells, start_row + 1, start_col).shape)
        west == start_col # 0
                /\ goes_east(CellAt(cells, start_row, start_col - 1).shape)
        east == start_col < Len(cells[1]) - 1
                /\ goes_west(CellAt(cells, start_row, start_col + 1).shape)
    IN  IF north /\ south THEN "|"
        ELSE IF east /\ west THEN "-"
        ELSE IF north /\ east THEN "L"
        ELSE IF north /\ west THEN "J"
        ELSE IF south /\ west THEN "7"
        ELSE IF south /\ east THEN "F"
        ELSE "RuntimeError"

\* Maze._visit lines 202-204
visit_cell(cs, row_idx, col_idx) ==
    LET r == ListIndex(row_idx, Len(cs)) + 1
        c == ListIndex(col_idx, Len(cs[1])) + 1
    IN  [cs EXCEPT ![r][c].reachable_from_start = TRUE]

\* Maze._next_idx lines 206-220; the cell is there
next_idx(cs, row_idx, col_idx, in_dir) ==
    LET nd == next_dir(CellAt(cs, row_idx, col_idx).shape, in_dir)
    IN  CASE nd = "NORTH" -> <<row_idx - 1, col_idx, "SOUTH">>
          [] nd = "WEST" -> <<row_idx, col_idx - 1, "EAST">>
          [] nd = "EAST" -> <<row_idx, col_idx + 1, "WEST">>
          [] nd = "SOUTH" -> <<row_idx + 1, col_idx, "NORTH">>
          [] OTHER -> <<"RuntimeError">>

\* Maze.print_pipes lines 110-114
print_pipes(cs) == [i \in DOMAIN cs |-> [j \in DOMAIN cs[i] |-> cs[i][j].shape]]

\* Maze.print_reachability lines 116-120
print_reachability(cs) ==
    [i \in DOMAIN cs |-> [j \in DOMAIN cs[i] |-> reachable_char(cs[i][j])]]

\* Maze.count_reachable_tiles lines 197-200
ReachableTiles(cs) ==
    {rc \in (0..(Len(cs) - 1)) \X (0..(Len(cs[1]) - 1)) :
        cs[rc[1] + 1][rc[2] + 1].reachable_from_start}

\* ---- the mazes walked: a loop of pipes with S on it, all else ground but
\* for at most one more pipe, which lies next to S
MazeWidth == 4
MazeRowIds == 0..2
MazeColIds == 0..(MazeWidth - 1)
MazeTiles == MazeRowIds \X MazeColIds
Pipes == {"|", "-", "L", "J", "7", "F"}

TileNo(t) == t[1] * MazeWidth + t[2]

\* the tile next to t in direction d and the directions two tiles apart
Toward(t, d) ==
    CASE d = "NORTH" -> <<t[1] - 1, t[2]>>
      [] d = "SOUTH" -> <<t[1] + 1, t[2]>>
      [] d = "WEST" -> <<t[1], t[2] - 1>>
      [] d = "EAST" -> <<t[1], t[2] + 1>>
Compass == {"NORTH", "WEST", "EAST", "SOUTH"}
NextTo(t) == {Toward(t, d) : d \in Compass} \cap MazeTiles

\* the closed walks without repeated tile, as the sequence of their tiles
\* from the least tile toward the lesser of its two neighbours
RECURSIVE LoopsAlong(_)
LoopsAlong(walk) ==
    UNION {IF n = walk[1]
           THEN IF Len(walk) >= 4 /\ TileNo(walk[2]) < TileNo(walk[Len(walk)])
                THEN {walk} ELSE {}
           ELSE IF n \in {walk[i] : i \in DOMAIN walk} \/ TileNo(n) < TileNo(walk[1])
           THEN {}
           ELSE LoopsAlong(Append(walk, n)) :
           n \in NextTo(walk[Len(walk)])}

Loops == UNION {LoopsAlong(<<t>>) : t \in MazeTiles}

\* the pipe that joins the tiles before and after tile i of a loop
PipeOn(loop, i) ==
    LET n == Len(loop)
        before == loop[IF i = 1 THEN n ELSE i - 1]
        after == loop[IF i = n THEN 1 ELSE i + 1]
        ds == {d \in Compass : Toward(loop[i], d) \in {before, after}}
    IN  CHOOSE p \in Pipes :
            /\ goes_north(p) <=> "NORTH" \in ds
            /\ goes_south(p) <=> "SOUTH" \in ds
            /\ goes_west(p) <=> "WEST" \in ds
            /\ goes_east(p) <=> "EAST" \in ds

\* the lines of the maze that holds a loop and nothing else
LoopLines(loop) ==
    [r \in 1..Cardinality(MazeRowIds) |-> [c \in 1..MazeWidth |->
        LET on == {i \in DOMAIN loop : loop[i] = <<r - 1, c - 1>>}
        IN  IF on = {} THEN "." ELSE PipeOn(loop, CHOOSE i \in on : TRUE)]]

Put(lines, t, ch) == [lines EXCEPT ![t[1] + 1][t[2] + 1] = ch]

\* the mazes of a loop: S on any of its tiles, and no or one more pipe on a
\* tile next to S
MazesOf(loop) ==
    LET lines == LoopLines(loop)
        on == {loop[i] : i \in DOMAIN loop}
    IN  IF lines = <<>>
        THEN {}
        ELSE UNION {{Put(lines, s, "S")} \cup
                    {Put(Put(lines, s, "S"), t, p) : t \in NextTo(s) \ on, p \in Pipes} :
                    s \in on}

Mazes == UNION {MazesOf(loop) : loop \in Loops}

MazeInit ==
    /\ maze_lines = <<>>
    /\ cells = <<>>
    /\ maze_start = <<>>
    /\ maze_cur = <<>>
    /\ maze_printed = <<>>
    /\ maze_pc = "parse_file"
    /\ maze_result = None
    /\ NotMazeIdle

\* parse_file lines 225-228: the file read and Maze.from_strs
MazeFromStrs ==
    /\ maze_pc = "parse_file"
    /\ maze_lines' \in Mazes
    /\ cells' = CellsOf(maze_lines')
    /\ maze_start' = StartOf(maze_lines')
    /\ maze_pc' = "call"
    /\ UNCHANGED <<maze_cur, maze_printed, maze_result, notMazeVars>>

\* walk_tiles lines 166-184: up to the first step off the start tile
WalkTilesStart ==
    /\ maze_pc = "call"
    /\ maze_printed' = print_pipes(cells)
    /\ LET start_shape == find_start_shape
           shaped == [cells EXCEPT ![start_row + 1][start_col + 1].shape = start_shape]
           visited == visit_cell(shaped, start_row, start_col)
           cur_dir == IF goes_north(start_shape) THEN "NORTH"
                      ELSE IF goes_west(start_shape) THEN "WEST"
                      ELSE IF goes_east(start_shape) THEN "EAST"
                      ELSE "SOUTH"
       IN  IF start_shape = "RuntimeError"
           THEN /\ maze_pc' = "RuntimeError"
                /\ UNCHANGED <<cells, maze_cur>>
           ELSE /\ cells' = visited
                /\ maze_cur' = next_idx(visited, start_row, start_col, cur_dir)
                /\ maze_pc' = "walking"
    /\ UNCHANGED <<maze_lines, maze_start, maze_result, notMazeVars>>

\* walk_tiles lines 186-189: one round of the loop
WalkTilesStep ==
    /\ maze_pc = "walking"
    /\ ~(maze_cur[1] = start_row /\ maze_cur[2] = start_col)
    /\ IF ~HasCell(cells, maze_cur[1], maze_cur[2])
       THEN /\ maze_pc' = "IndexError"
            /\ UNCHANGED <<cells, maze_cur>>
       ELSE LET visited == visit_cell(cells, maze_cur[1], maze_cur[2])
                next == next_idx(visited, maze_cur[1], maze_cur[2], maze_cur[3])
            IN  /\ cells' = visited
                /\ IF next = <<"RuntimeError">>
                   THEN maze_pc' = "RuntimeError" /\ UNCHANGED maze_cur
                   ELSE maze_pc' = "walking" /\ maze_cur' = next
    /\ UNCHANGED <<maze_lines, maze_start, maze_printed, maze_result, notMazeVars>>

\* walk_tiles line 192, count_reachable_tiles lines 197-200 and parse_file
\* line 230
WalkTilesReturn ==
    /\ maze_pc = "walking"
    /\ maze_cur[1] = start_row /\ maze_cur[2] = start_col
    /\ maze_printed' = maze_printed \o print_reachability(cells)
    /\ maze_result' = Cardinality(ReachableTiles(cells)) \div 2
    /\ maze_pc' = "returned"
    /\ UNCHANGED <<maze_lines, cells, maze_start, maze_cur, notMazeVars>>

MazeNext ==
    \/ MazeFromStrs
    \/ WalkTilesStart
    \/ WalkTilesStep
    \/ WalkTilesReturn

SpecMaze == MazeInit /\ [][MazeNext]_vars

\* the interpreter keeps running the one thread of the script
SpecMazeFair == SpecMaze /\ WF_vars(MazeNext)

\* the loop of pipes that contains S.  Two tiles next to each other are
\* joined when their pipes open toward each other, and S opens toward every
\* pipe that opens toward it.
Opens(lines, t, d) ==
    LET ch == lines[t[1] + 1][t[2] + 1]
    IN  CASE d = "NORTH" -> goes_north(ch)
          [] d = "SOUTH" -> goes_south(ch)
          [] d = "WEST" -> goes_west(ch)
          [] d = "EAST" -> goes_east(ch)

Opposite(d) ==
    CASE d = "NORTH" -> "SOUTH" [] d = "SOUTH" -> "NORTH"
      [] d = "WEST" -> "EAST" [] d = "EAST" -> "WEST"

InMaze(lines, t) == t[1] \in 0..(Len(lines) - 1) /\ t[2] \in 0..(Len(lines[1]) - 1)

Joined(lines, t, d) ==
    LET n == Toward(t, d)
    IN  /\ InMaze(lines, n)
        /\ lines[t[1] + 1][t[2] + 1] = "S" \/ Opens(lines, t, d)
        /\ lines[n[1] + 1][n[2] + 1] = "S" \/ Opens(lines, n, Opposite(d))

StartJoins == {d \in Compass : Joined(maze_lines, StartOf(maze_lines), d)}

\* the tiles joined to those reached without passing S
RECURSIVE PipeFrom(_, _)
PipeFrom(lines, reached) ==
    LET more == reached \cup
                UNION {{Toward(t, d) : d \in {e \in Compass : Joined(lines, t, e)}} :
                          t \in reached}
        on == more \ {StartOf(lines)}
    IN  IF on = reached THEN reached ELSE PipeFrom(lines, on)

\* S and every stretch of pipe that leaves S and comes back to it
LoopTiles ==
    LET s == StartOf(maze_lines)
        stretch(d) == PipeFrom(maze_lines, {Toward(s, d)})
        back(d) == {e \in StartJoins : Toward(s, e) \in stretch(d)}
    IN  {s} \cup UNION {stretch(d) : d \in {e \in StartJoins : Cardinality(back(e)) > 1}}

-----------------------------------------------------------------------------
(* src/day21/part2.py: Map.walk_n_steps on the grid repeated without end.  *)
(* Points are [row, col] records of any integers.                          *)

\* aoc_tools/graph.py Point.neighbors lines 96-103
Point_neighbors(pt) ==
    {[row |-> pt.row - 1, col |-> pt.col], [row |-> pt.row + 1, col |-> pt.col],
     [row |-> pt.row, col |-> pt.col - 1], [row |-> pt.row, col |-> pt.col + 1]}

\* Map.wrap lines 74-79; % of Python takes the sign of the divisor, as here
wrap(pt) == [row |-> pt.row % Len(plots), col |-> pt.col % Len(plots[1])]

\* Map.cell_is_not_rock lines 81-85
cell_is_not_rock(pt) == plots[wrap(pt).row + 1][wrap(pt).col + 1] # "#"

\* Map.visit lines 87-94
Map21_visit(point) == {n \in Point_neighbors(point) : cell_is_not_rock(n)}

\* Map._find_start lines 66-72: the first S in reading order; the grids walked
\* have one
find_start ==
    LET at == {pt \in [row : 0..(Len(plots) - 1), col : 0..(Len(plots[1]) - 1)] :
                  plots[pt.row + 1][pt.col + 1] = "S"}
    IN  CHOOSE pt \in at : \A o \in at :
            pt.row < o.row \/ (pt.row = o.row /\ pt.col <= o.col)

\* max(remember_steps)
MaxOf(s) == CHOOSE x \in {s[i] : i \in DOMAIN s} : \A i \in DOMAIN s : s[i] <= x

\* ---- the grids walked and the steps remembered
PlotSide == 3
MaxRemember == 3

PlotGrids(side) ==
    UNION {{g \in [1..n -> [1..n -> {"S", ".", "#"}]] :
               Cardinality({rc \in (1..n) \X (1..n) : g[rc[1]][rc[2]] = "S"}) = 1} :
           n \in 1..side}

RememberLists ==
    {<<i>> : i \in 0..MaxRemember}
    \cup {<<i, j>> : i, j \in 0..MaxRemember}

PlotInit ==
    /\ plots \in PlotGrids(PlotSide)
    /\ remember_steps \in RememberLists
    /\ odd_points = {}
    /\ even_points = {}
    /\ plot_queue = {}
    /\ plot_steps = 0
    /\ plot_out = <<>>
    /\ plot_pc = "call"
    /\ NotPlotIdle

\* walk_n_steps lines 102-110
WalkNStart ==
    /\ plot_pc = "call"
    /\ odd_points' = {}
    /\ even_points' = {find_start}
    /\ plot_queue' = {find_start}
    /\ plot_out' = <<>>
    /\ plot_steps' = 0
    /\ plot_pc' = "loop"
    /\ UNCHANGED <<plots, remember_steps, notPlotVars>>

\* walk_n_steps lines 112-130: one round of the loop
WalkNRound ==
    /\ plot_pc = "loop"
    /\ plot_steps < MaxOf(remember_steps)
    /\ LET i == plot_steps + 1
           new_points == UNION {Map21_visit(pt) : pt \in plot_queue}
           evens == IF i % 2 = 0 THEN even_points \cup new_points ELSE even_points
           odds == IF i % 2 = 0 THEN odd_points ELSE odd_points \cup new_points
       IN  /\ even_points' = evens
           /\ odd_points' = odds
           /\ plot_queue' = new_points
           /\ plot_out' = IF \E k \in DOMAIN remember_steps : remember_steps[k] = i
                          THEN Append(plot_out, IF i % 2 = 0 THEN Cardinality(evens)
                                                ELSE Cardinality(odds))
                          ELSE plot_out
           /\ plot_steps' = i
    /\ UNCHANGED <<plots, remember_steps, plot_pc, notPlotVars>>

\* walk_n_steps line 132
WalkNReturn ==
    /\ plot_pc = "loop"
    /\ plot_steps = MaxOf(remember_steps)
    /\ plot_pc' = "returned"
    /\ UNCHANGED <<plots, remember_steps, odd_points, even_points, plot_queue,
                   plot_steps, plot_out, notPlotVars>>

PlotNext ==
    \/ WalkNStart
    \/ WalkNRound
    \/ WalkNReturn

SpecPlot == PlotInit /\ [][PlotNext]_vars

\* the positions a walk of exactly n steps from S can end on: a walk is a
\* choice of one of the four directions for every step, and it may not step
\* on a rock of the repeated grid
StepOf(d) ==
    CASE d = "UP" -> <<-1, 0>> [] d = "DOWN" -> <<1, 0>>
      [] d = "LEFT" -> <<0, -1>> [] d = "RIGHT" -> <<0, 1>>

RECURSIVE AfterSteps(_, _)
AfterSteps(w, k) ==
    IF k = 0
    THEN find_start
    ELSE LET at == AfterSteps(w, k - 1)
         IN  [row |-> at.row + StepOf(w[k])[1], col |-> at.col + StepOf(w[k])[2]]

IsRock(pt) == plots[(pt.row % Len(plots)) + 1][(pt.col % Len(plots[1])) + 1] = "#"

ReachedIn(n) ==
    {AfterSteps(w, n) : w \in {v \in [1..n -> Dirs] :
                                  \A k \in 1..n : ~IsRock(AfterSteps(v, k))}}

\* the step counts remembered that are at least 1, in increasing order
RECURSIVE Increasing(_)
Increasing(S) ==
    IF S = {} THEN <<>> ELSE <<SetMin(S)>> \o Increasing(S \ {SetMin(S)})

Remembered ==
    Increasing({remember_steps[k] : k \in DOMAIN remember_steps} \ {0})

-----------------------------------------------------------------------------
(* src/day20: the network of modules.  A line of the file is taken as the   *)
(* (type, name, send_to) that add_module reads from it; a module is a       *)
(* record of its class, its fields and, for the classes that lack one, the  *)
(* default of the other class's field.                                      *)

SeqToSet(s) == {s[i] : i \in DOMAIN s}

\* Signal lines 18-22
Signal(pulse, fr, to_name) == [pulse |-> pulse, fr |-> fr, to |-> to_name]

\* part1.py add_module lines 137-152: the module a line defines
ModuleOf(line) ==
    [kind |-> CASE line.type = "broadcaster" -> "Broadcast"
                [] line.type = "%" -> "FlipFlop"
                [] line.type = "&" -> "Conjunction",
     name |-> line.name,
     send_to |-> line.send_to,
     on |-> FALSE,
     most_recent_signal |-> <<>>]

\* dict[key] = value
DictPut(d, key, value) ==
    [k \in DOMAIN d \cup {key} |-> IF k = key THEN value ELSE d[k]]

\* _handle_missing_paths with the paths of an earlier call forgotten: a path
\* whose destination is not defined yet is dropped
RECURSIVE _handle_missing_paths_once(_, _, _, _)
_handle_missing_paths_once(mods, missing, i, handled) ==
    IF i > Len(missing)
    THEN [modules |-> mods, missing |-> <<>>]
    ELSE LET from_module == missing[i][1]
             to_module == missing[i][2]
         IN  IF to_module \notin DOMAIN mods
             THEN _handle_missing_paths_once(mods, missing, i + 1, handled)
             ELSE IF mods[to_module].kind # "Conjunction"
             THEN _handle_missing_paths_once(mods, missing, i + 1,
                                             handled \cup {missing[i]})
             ELSE _handle_missing_paths_once(
                      [mods EXCEPT ![to_module].most_recent_signal =
                            DictPut(@, from_module, "LOW")],
                      missing, i + 1, handled \cup {missing[i]})

\* part1.py Network._handle_missing_paths lines 116-130: the loop from path i
\* on, then the paths that stay
RECURSIVE _handle_missing_paths(_, _, _, _)
_handle_missing_paths(mods, missing, i, handled) ==
    IF i > Len(missing)
    THEN [modules |-> mods,
          missing |-> SelectSeq(missing, LAMBDA e : e \notin handled)]
    ELSE LET from_module == missing[i][1]
             to_module == missing[i][2]
         IN  IF to_module \notin DOMAIN mods
             THEN _handle_missing_paths(mods, missing, i + 1, handled)
             ELSE IF mods[to_module].kind # "Conjunction"
             THEN _handle_missing_paths(mods, missing, i + 1,
                                        handled \cup {missing[i]})
             ELSE _handle_missing_paths(
                      [mods EXCEPT ![to_module].most_recent_signal =
                            DictPut(@, from_module, "LOW")],
                      missing, i + 1, handled \cup {missing[i]})

\* part1.py Network.add_module lines 154-159
add_module(mods, missing, line) ==
    LET module == ModuleOf(line)
        paths_out == [k \in DOMAIN module.send_to |-> <<module.name, module.send_to[k]>>]
    IN  _handle_missing_paths(DictPut(mods, module.name, module),
                              missing \o paths_out, 1, {})

\* ---- the networks: a broadcaster and one or two modules, each a flip-flop
\* or a conjunction, that send to each other and to a module no line defines
MaxSendTo == 2
ModuleNames == {"a", "b"}
Undefined == "rx"

SendTos(names, most) ==
    {s \in UNION {[1..n -> names] : n \in 1..most} :
        \A i, j \in DOMAIN s : s[i] = s[j] => i = j}

ModuleLines(name, most) ==
    {[type |-> t, name |-> name, send_to |-> s] :
        t \in {"%", "&"}, s \in SendTos(ModuleNames \cup {Undefined}, most)}

BroadcasterLines(most) ==
    {[type |-> "broadcaster", name |-> "broadcaster", send_to |-> s] :
        s \in SendTos(ModuleNames, most)}

\* the files: the lines in every order
Files(most) ==
    LET sets == {{bl, al} : bl \in BroadcasterLines(most), al \in ModuleLines("a", most)}
                \cup {{bl, al, ml} : bl \in BroadcasterLines(most),
                                     al \in ModuleLines("a", most), ml \in ModuleLines("b", most)}
    IN  UNION {Orderings(ls) : ls \in sets}

NoPulses == [p \in {"LOW", "HIGH"} |-> 0]

NetAddInit ==
    /\ net_part = 1
    /\ net_lines \in Files(MaxSendTo)
    /\ modules = <<>>
    /\ missing_paths = <<>>
    /\ pulses_sent = NoPulses
    /\ signals_to_send = <<>>
    /\ signals_sent = <<>>
    /\ net_cache = <<>>
    /\ lows_received = <<>>
    /\ emitted = <<>>
    /\ delivered = <<>>
    /\ pushes = 0
    /\ net_pc = "adding"
    /\ NotNetIdle

\* part1.py parse_file lines 193-196: one call of add_module
AddModule ==
    /\ net_pc = "adding"
    /\ Cardinality(DOMAIN modules) < Len(net_lines)
    /\ LET added == add_module(modules, missing_paths,
                               net_lines[Cardinality(DOMAIN modules) + 1])
       IN  /\ modules' = added.modules
           /\ missing_paths' = added.missing
    /\ UNCHANGED <<net_part, net_lines, pulses_sent, signals_to_send, signals_sent,
                   net_cache, lows_received, emitted, delivered, pushes, net_pc,
                   notNetVars>>

\* part1.py parse_file: the last line is read
AddModuleDone ==
    /\ net_pc = "adding"
    /\ Cardinality(DOMAIN modules) = Len(net_lines)
    /\ net_pc' = "built"
    /\ UNCHANGED <<net_part, net_lines, modules, missing_paths, pulses_sent,
                   signals_to_send, signals_sent, net_cache, lows_received,
                   emitted, delivered, pushes, notNetVars>>

NetAddNext ==
    \/ AddModule
    \/ AddModuleDone

SpecNetAdd == NetAddInit /\ [][NetAddNext]_vars

\* the modules of the file that list name in their send_to
ListedBy(name) ==
    {net_lines[i].name : i \in {k \in DOMAIN net_lines :
                                   name \in SeqToSet(net_lines[k].send_to)}}

DefinedNames == {net_lines[i].name : i \in DOMAIN net_lines}

\* ---- pushing the button

\* part1.py Module._send_to_all lines 44-48
_send_to_all(module, pulse) ==
    [k \in 1..Len(module.send_to) |-> Signal(pulse, module.name, module.send_to[k])]

\* part1.py FlipFlop.handle_pulse lines 55-69: the module afterwards and the
\* signals returned
FlipFlop_handle_pulse(module, pulse, from_module) ==
    IF pulse = "HIGH"
    THEN [module |-> module, out |-> <<>>]
    ELSE IF module.on
    THEN [module |-> [module EXCEPT !.on = FALSE], out |-> _send_to_all(module, "LOW")]
    ELSE [module |-> [module EXCEPT !.on = TRUE], out |-> _send_to_all(module, "HIGH")]

\* part1.py Conjunction.handle_pulse lines 76-83
Conjunction_handle_pulse(module, pulse, from_module) ==
    LET remembered == DictPut(module.most_recent_signal, from_module, pulse)
        after == [module EXCEPT !.most_recent_signal = remembered]
    IN  IF \A m \in DOMAIN remembered : remembered[m] = "HIGH"
        THEN [module |-> after, out |-> _send_to_all(after, "LOW")]
        ELSE [module |-> after, out |-> _send_to_all(after, "HIGH")]

\* part1.py Broadcast.handle_pulse lines 92-93
Broadcast_handle_pulse(module, pulse, from_module) ==
    [module |-> module, out |-> _send_to_all(module, pulse)]

\* part1.py: modules[sig.to].handle_pulse(sig.pulse, sig.fr), by the class of
\* the module
handle_pulse(module, pulse, from_module) ==
    CASE module.kind = "FlipFlop" -> FlipFlop_handle_pulse(module, pulse, from_module)
      [] module.kind = "Conjunction" -> Conjunction_handle_pulse(module, pulse, from_module)
      [] module.kind = "Broadcast" -> Broadcast_handle_pulse(module, pulse, from_module)

\* ---- part2.py: the handlers behind functools.cache.  The cache is one
\* dict per decorated function, from the arguments of a call to the list the
\* first call with equal arguments returned.

NoCache == [send |-> <<>>, flip |-> <<>>, conj |-> <<>>, bcast |-> <<>>]

\* part2.py FrozenModule lines 55-58 and its subclasses lines 66-70, 107-109:
\* the frozen copies, equal when class and fields are
FrozenFlipFlop(name, send_to_tuple, on) ==
    [class |-> "FrozenFlipFlop", name |-> name, send_to |-> send_to_tuple,
     on |-> on, most_recent_signal |-> <<>>]

FrozenConjunction(name, send_to_tuple, most_recent_signal) ==
    [class |-> "FrozenConjunction", name |-> name, send_to |-> send_to_tuple,
     on |-> FALSE, most_recent_signal |-> most_recent_signal]

\* part2.py _frozen_send_to_all lines 61-63, cached: the cache afterwards and
\* the list returned
_frozen_send_to_all(cache, fm, pulse) ==
    LET key == <<fm, pulse>>
    IN  IF key \in DOMAIN cache.send
        THEN [cache |-> cache, out |-> cache.send[key]]
        ELSE LET sent == [k \in 1..Len(fm.send_to) |->
                            Signal(pulse, fm.name, fm.send_to[k])]
             IN  [cache |-> [cache EXCEPT !.send = DictPut(@, key, sent)],
                  out |-> sent]

\* part2.py _handle_flip_flop_pulse lines 73-83, cached
_handle_flip_flop_pulse(cache, fm, pulse) ==
    LET key == <<fm, pulse>>
    IN  IF key \in DOMAIN cache.flip
        THEN [cache |-> cache, out |-> cache.flip[key]]
        ELSE LET called == IF pulse = "HIGH"
                           THEN [cache |-> cache, out |-> <<>>]
                           ELSE IF fm.on
                           THEN _frozen_send_to_all(cache, fm, "LOW")
                           ELSE _frozen_send_to_all(cache, fm, "HIGH")
             IN  [cache |-> [called.cache EXCEPT !.flip = DictPut(@, key, called.out)],
                  out |-> called.out]

\* part2.py FlipFlop.freeze lines 90-93
FlipFlop_freeze(module) ==
    FrozenFlipFlop(module.name, module.send_to, module.on)

\* FlipFlop.handle_pulse of part 2 with the state changed before the frozen
\* copy is taken
FlipFlop_handle_pulse_late_freeze(cache, module, pulse, from_module) ==
    LET after == IF pulse = "LOW" THEN [module EXCEPT !.on = ~module.on] ELSE module
        called == _handle_flip_flop_pulse(cache, FlipFlop_freeze(after), pulse)
    IN  [module |-> after, out |-> called.out, cache |-> called.cache]

\* part2.py FlipFlop.handle_pulse lines 95-104
FlipFlop_handle_pulse2(cache, module, pulse, from_module) ==
    LET fm == FlipFlop_freeze(module)
        called == _handle_flip_flop_pulse(cache, fm, pulse)
    IN  [module |-> IF pulse = "LOW" THEN [module EXCEPT !.on = ~module.on] ELSE module,
         out |-> called.out,
         cache |-> called.cache]

\* part2.py _handle_conjunction_pulse lines 112-121, cached
_handle_conjunction_pulse(cache, fm, pulse, from_module) ==
    LET key == <<fm, pulse, from_module>>
    IN  IF key \in DOMAIN cache.conj
        THEN [cache |-> cache, out |-> cache.conj[key]]
        ELSE LET fd == DictPut(fm.most_recent_signal, from_module, pulse)
                 called == IF \A m \in DOMAIN fd : fd[m] = "HIGH"
                           THEN _frozen_send_to_all(cache, fm, "LOW")
                           ELSE _frozen_send_to_all(cache, fm, "HIGH")
             IN  [cache |-> [called.cache EXCEPT !.conj = DictPut(@, key, called.out)],
                  out |-> called.out]

\* part2.py Conjunction.freeze lines 128-131
Conjunction_freeze(module) ==
    FrozenConjunction(module.name, module.send_to, module.most_recent_signal)

\* part2.py Conjunction.handle_pulse lines 133-137
Conjunction_handle_pulse2(cache, module, pulse, from_module) ==
    LET fm == Conjunction_freeze(module)
        called == _handle_conjunction_pulse(cache, fm, pulse, from_module)
    IN  [module |-> [module EXCEPT !.most_recent_signal =
                         DictPut(@, from_module, pulse)],
         out |-> called.out,
         cache |-> called.cache]

\* part2.py Broadcast.handle_pulse lines 145-151, cached on (self, pulse, _);
\* two Broadcast objects are equal when name and send_to are
Broadcast_handle_pulse2(cache, module, pulse, from_module) ==
    LET key == <<module.name, module.send_to, pulse, from_module>>
    IN  IF key \in DOMAIN cache.bcast
        THEN [module |-> module, out |-> cache.bcast[key], cache |-> cache]
        ELSE LET sent == _send_to_all(module, pulse)
             IN  [module |-> module, out |-> sent,
                  cache |-> [cache EXCEPT !.bcast = DictPut(@, key, sent)]]

\* part2.py Network._send_signal lines 247-250: the call of handle_pulse
handle_pulse2(cache, module, pulse, from_module) ==
    CASE module.kind = "FlipFlop" -> FlipFlop_handle_pulse2(cache, module, pulse, from_module)
      [] module.kind = "Conjunction" -> Conjunction_handle_pulse2(cache, module, pulse, from_module)
      [] module.kind = "Broadcast" -> Broadcast_handle_pulse2(cache, module, pulse, from_module)

\* push_button with the new signals put in front of the waiting ones
append_all_in_front(waiting, new_signals) == new_signals \o waiting

\* part1.py push_button lines 175-176, part2.py lines 237-238:
\* for new_sig in new_signals: signals_to_send.append(new_sig)
append_all(waiting, new_signals) == waiting \o new_signals

\* ---- the runs: a network is built from its lines, broadcaster first, and
\* the button is pushed up to MaxPushes times; a push is followed until
\* MaxPulses signals have been sent, since a network with a loop of
\* conjunctions keeps push_button busy for ever
MaxPushes == 3
MaxPulses == 10

Networks(most) ==
    {<<bl, al>> : bl \in BroadcasterLines(most), al \in ModuleLines("a", most)}
    \cup {<<bl, al, ml>> : bl \in BroadcasterLines(most),
                           al \in ModuleLines("a", most), ml \in ModuleLines("b", most)}

NetPushInit ==
    /\ net_part \in {1, 2}
    /\ net_lines \in Networks(MaxSendTo)
    /\ modules = <<>>
    /\ missing_paths = <<>>
    /\ pulses_sent = NoPulses
    /\ signals_to_send = <<>>
    /\ signals_sent = <<>>
    /\ net_cache = NoCache
    /\ lows_received = [n \in {"broadcaster"} \cup ModuleNames |-> 0]
    /\ emitted = <<>>
    /\ delivered = <<>>
    /\ pushes = 0
    /\ net_pc = "adding"
    /\ NotNetIdle

\* part1.py push_button lines 163-165, part2.py lines 224-227
PushButton ==
    /\ net_pc = "built"
    /\ pushes < MaxPushes
    /\ LET button == Signal("LOW", "xx_button_xx", "broadcaster")
       IN  /\ signals_to_send' = <<button>>
           /\ emitted' = <<[sig |-> button, by |-> 0, k |-> 1]>>
    /\ signals_sent' = <<>>
    /\ delivered' = <<>>
    /\ net_pc' = "pushing"
    /\ UNCHANGED <<net_part, net_lines, modules, missing_paths, pulses_sent,
                   net_cache, lows_received, pushes, notNetVars>>

\* part1.py push_button lines 167-176, part2.py lines 230-238 with
\* _send_signal lines 242-250: one round of the while loop
HandleSignal ==
    /\ net_pc = "pushing"
    /\ signals_to_send # <<>>
    /\ Len(emitted) < MaxPulses
    /\ LET sig == signals_to_send[1]
           known == sig.to \in DOMAIN modules
           handled == IF ~known
                      THEN [out |-> <<>>, cache |-> net_cache]
                      ELSE IF net_part = 1
                      THEN LET called == handle_pulse(modules[sig.to], sig.pulse, sig.fr)
                           IN  [module |-> called.module, out |-> called.out,
                                cache |-> net_cache]
                      ELSE handle_pulse2(net_cache, modules[sig.to], sig.pulse, sig.fr)
           new_signals == handled.out
       IN  /\ pulses_sent' = [pulses_sent EXCEPT ![sig.pulse] = @ + 1]
           /\ signals_sent' = IF net_part = 2 THEN Append(signals_sent, sig)
                              ELSE signals_sent
           /\ signals_to_send' = append_all(Tail(signals_to_send), new_signals)
           /\ modules' = IF known THEN [modules EXCEPT ![sig.to] = handled.module]
                         ELSE modules
           /\ net_cache' = handled.cache
           /\ delivered' = Append(delivered, sig)
           /\ emitted' = emitted \o [k \in 1..Len(new_signals) |->
                             [sig |-> new_signals[k], by |-> Len(delivered) + 1, k |-> k]]
           /\ lows_received' = IF known /\ sig.pulse = "LOW"
                               THEN [lows_received EXCEPT ![sig.to] = @ + 1]
                               ELSE lows_received
    /\ UNCHANGED <<net_part, net_lines, missing_paths, pushes, net_pc, notNetVars>>

\* part1.py push_button line 167, part2.py lines 230 and 240: signals_to_send
\* is empty, the call returns
PushReturn ==
    /\ net_pc = "pushing"
    /\ signals_to_send = <<>>
    /\ net_pc' = "built"
    /\ pushes' = pushes + 1
    /\ UNCHANGED <<net_part, net_lines, modules, missing_paths, pulses_sent,
                   signals_to_send, signals_sent, net_cache, lows_received,
                   emitted, delivered, notNetVars>>

NetPushNext ==
    \/ AddModule
    \/ AddModuleDone
    \/ PushButton
    \/ HandleSignal
    \/ PushReturn

SpecNetPush == NetPushInit /\ [][NetPushNext]_vars

\* the signals of a history, in its order
SignalsOf(history) == [i \in 1..Len(history) |-> history[i].sig]

-----------------------------------------------------------------------------
(* Reference values for the shortest-path claims: the cheapest walk, computed
   from the definition (edges taken one at a time, the cheapest of parallel
   paths each time), not by either algorithm. *)

AllPathCosts(i, j) ==
    {paths[x].cost : x \in {y \in 1..Len(paths) :
                              paths[y].from_node_id = i /\ paths[y].to_node_id = j}}

\* cheapest walk from i to j that uses at most k paths (INFINITY: there is none)
RECURSIVE WalkCost(_, _, _)
WalkCost(i, j, k) ==
    IF k = 0 THEN (IF i = j THEN 0 ELSE INFINITY)
    ELSE SetMin({WalkCost(i, j, k - 1)} \cup
                {WalkCost(i, m[1], k - 1) + m[2] :
                    m \in {x \in NodeIds \X (MinCost..MaxCost) :
                             /\ x[2] \in AllPathCosts(x[1], j)
                             /\ WalkCost(i, x[1], k - 1) < INFINITY}})

\* cheapest closed walk through i that uses between 1 and k paths
CycleCost(i, k) ==
    SetMin({INFINITY} \cup
           {WalkCost(i, m[1], k - 1) + m[2] :
               m \in {x \in NodeIds \X (MinCost..MaxCost) :
                        /\ x[2] \in AllPathCosts(x[1], i)
                        /\ WalkCost(i, x[1], k - 1) < INFINITY}})

HasNegativeCycle == \E i \in NodeIds : CycleCost(i, NumNodes) < 0

HasNegativeCost == \E x \in 1..Len(paths) : paths[x].cost < 0

\* without a negative cycle a cheapest walk is a simple path: < NumNodes paths
ShortestCost(i, j) == WalkCost(i, j, NumNodes - 1)

-----------------------------------------------------------------------------
(* C1: for a graph whose costs are all non-negative, with start_id and end_id
   set and end_id reachable from start_id, a call of dijkstra() ends by
   returning the minimum total cost of a path from start_id to end_id. *)
C1_DijkstraReturnsMinimum ==
    (/\ sp_pc \in {"returned", "diverged", "runtime_error", "assertion_error"}
     /\ start_id # None /\ end_id # None
     /\ ~HasNegativeCost
     /\ ShortestCost(start_id, end_id) < INFINITY)
    => (sp_pc = "returned" /\ sp_result = ShortestCost(start_id, end_id))

(* C4: for a graph without a negative cycle, floyd_warshall() returns for
   every ordered pair (i, j) the minimum total cost of a path from i to j:
   0 when i = j, INFINITY when j cannot be reached from i, the cheapest
   alternative when several paths join the same two nodes. *)
C4_FloydReturnsShortest ==
    (sp_pc \in {"returned", "runtime_error"} /\ ~HasNegativeCycle)
    => /\ sp_pc = "returned"
       /\ \A p \in AllPairs : sp_result[p] = ShortestCost(p[1], p[2])

(* C9: floyd_warshall() raises RuntimeError whenever the graph holds a cycle
   of one or more paths whose total cost is negative. *)
C9_FloydRaisesOnNegativeCycle ==
    (sp_pc \in {"returned", "runtime_error"} /\ HasNegativeCycle)
    => sp_pc = "runtime_error"

(* C2: enclosed_area(polygon) returns the geometric area of a simple polygon
   with integer vertices, the same for the clockwise and the counter-clockwise
   listing of its vertices. *)
C2_EnclosedAreaIsArea ==
    (geo_pc = "returned" /\ geo_call = "enclosed_area" /\ IsSimple(Ring(polygon)))
    => /\ geo_result = TwiceArea(polygon)
       /\ geo_result = enclosed_area(Reverse(polygon))

\* the unit square, listed in the orientation whose determinant sum is negative, gave 1
C2_Witness ==
    /\ geo_pc = "returned" /\ geo_call = "enclosed_area"
    /\ IsSimple(polygon) /\ NegativelyOriented(polygon)
    /\ Len(polygon) = 4 /\ InteriorCount(polygon) = 0 /\ BoundaryCount(polygon) = 4
    /\ geo_result = FromInt(1)

(* C3: count_enclosed_points(polygon) returns the number of lattice points
   strictly inside a simple polygon with integer vertices, for either
   orientation, also when the list repeats the start point at its end. *)
C3_CountIsInteriorPoints ==
    (/\ geo_pc = "returned" /\ geo_call = "count_enclosed_points"
     /\ IsSimple(Ring(polygon)))
    => geo_result = InteriorCount(polygon)

\* a negatively oriented polygon, start point repeated, with one lattice point inside
C3_Witness ==
    /\ geo_pc = "returned" /\ geo_call = "count_enclosed_points"
    /\ polygon[Len(polygon)] = polygon[1]
    /\ NegativelyOriented(polygon)
    /\ InteriorCount(polygon) = 1
    /\ geo_result = 1

(* C5: Polygon.enclosed_area() and Polygon.count_enclosed_points() return the
   same area and the same interior-point count as the module-level
   enclosed_area() and count_enclosed_points() on the same vertices. *)
C5_PolygonMethodsAgree ==
    /\ (geo_pc = "returned" /\ geo_call = "Polygon.enclosed_area")
       => geo_result = enclosed_area(polygon)
    /\ (geo_pc = "returned" /\ geo_call = "Polygon.count_enclosed_points")
       => geo_result = count_enclosed_points(polygon)

(* C6: hashing the same unmodified container twice yields the same value,
   two containers holding equal contents have equal hashes, and a container
   that equals a stored (and since unmodified) key is found in the set. *)
C6_HashableContainers ==
    /\ \A c \in DOMAIN seen_hashes : Cardinality(seen_hashes[c]) <= 1
    /\ \A c1, c2 \in DOMAIN seen_hashes :
          SameContents(c1, c2) => Cardinality(seen_hashes[c1] \cup seen_hashes[c2]) <= 1
    /\ (found # "none" /\ \E e \in table : ~e.stale /\ ContainerEq(e.obj, found.obj))
       => found.result

(* C10 as stated: for every connected graph of unit-weight wires with at
   least two vertices, stoer_wagner_alg() returns a Cut whose weight is the
   weight of a global minimum cut. *)
C10_ReturnsMinimumCut ==
    sw_pc = "returned" => sw_result.weight = MinCutWeight

(* C10 as amended: the returned weight is the weight of a global minimum cut
   whenever that minimum is at least 3 wires; when the minimum is smaller the
   returned weight is the minimum or 3 (the loop stops at the first phase cut
   of weight 3 that has three edges). *)
C10_ReturnsMinimumCutFrom3 ==
    sw_pc = "returned"
    => \/ sw_result.weight = MinCutWeight
       \/ MinCutWeight < 3 /\ sw_result.weight = 3

\* a graph whose minimum cut is at least 3 wires, found after merges
C10_Witness ==
    /\ sw_pc = "returned"
    /\ MinCutWeight >= 3
    /\ sw_phases >= 2
    /\ sw_result.weight = MinCutWeight

(* C7 as stated: every day script, run on a well-formed input, writes exactly
   one item to standard output, the integer answer, and nothing else. *)
C7_WritesOnlyTheAnswer ==
    main_pc = "exited" => stdout = <<Print1(IntArg(Answer))>>

(* C7 as amended: the last line each of the three scripts writes is the
   integer answer.  day01/part1.py writes nothing else; day03/part1.py writes
   the filename before it; day19/part1.py writes the filename and, for each
   part, a "part:" line, an "applying workflow named:" line per workflow it
   goes through, and an "accepting part" or "rejecting part" line. *)
C7_AnswerIsLastLine ==
    main_pc = "exited"
    => /\ stdout[Len(stdout)] = Print1(IntArg(Answer))
       /\ \A i \in 1..(Len(stdout) - 1) : "int" \notin DOMAIN stdout[i][1]
       /\ script = "day01/part1" => Len(stdout) = 1
       /\ script = "day03/part1" => stdout[1] = Print1(StrArg(filename)) /\ Len(stdout) = 2
       /\ script = "day19/part1" =>
             /\ stdout[1] = Print1(StrArg(filename))
             /\ Len(stdout) = Day19TraceLines + 1

\* day19/part1.py has finished a file in which a part went through two
\* workflows and was accepted
C7_Witness ==
    /\ main_pc = "exited"
    /\ script = "day19/part1"
    /\ Answer > 0
    /\ \E i \in 1..Len(stdout) :
          stdout[i] = Print2(StrArg("applying workflow named:"), StrArg("b"))

(* C8 as stated: in the scripts that read their lines with a regular
   expression (day02 parts 1 and 2, day08), a line that is not of the expected
   format makes the script raise an exception; no answer is computed from a
   malformed line. *)
C8_RaisesOnMalformedLine ==
    (main_pc \in {"exited", "raised"} /\ HasMalformedLine)
    => (raised # "" /\ ~AnswerWritten)

(* C8 as amended: day08/part1.py raises (RuntimeError from Node.from_str,
   unless an earlier line raised ValueError) when a non-blank line after
   the first holds no text of the shape "... = (..., ...)", and writes no
   answer then; text around the shape is ignored.  day02/part1.py raises
   RuntimeError exactly when a line that is_game_possible accepts holds no
   "Game <digits>:", and writes no answer then.  day02/part2.py raises for no
   line and always writes an answer. *)
C8_RaisesWhereTheCodeSearches ==
    main_pc \in {"exited", "raised"}
    => /\ raised # "" => ~AnswerWritten
       /\ raised = "" => AnswerWritten
       /\ script = "day08/part1" =>
             IF \E k \in 2..Len(file) :
                   Strip(file[k]) # <<>> /\ ~ContainsNodeShape(file[k])
             THEN raised \in {"RuntimeError", "ValueError"}
             ELSE raised # "RuntimeError"
       /\ script = "day02/part1" =>
             (raised = "RuntimeError"
              <=> \E k \in 1..Len(file) :
                     is_game_possible(file[k]) /\ ~ContainsGameId(file[k]))
       /\ script = "day02/part2" => raised = ""

\* day08/part1.py has taken a line with text around the node shape, and
\* written an answer
C8_Witness ==
    /\ main_pc = "exited"
    /\ script = "day08/part1"
    /\ HasMalformedLine
    /\ AnswerWritten

(* C11: City.walk of day 17 part 2 returns the least total heat loss over the
   paths from the top-left block to the bottom-right block whose straight
   runs are 4 to 10 blocks long (the last one included) and that never
   reverse, the cost of every block entered counted and that of the first
   block not; where there is no such path it returns nothing. *)
C11_WalkReturnsLeastHeatLoss ==
    walk_pc \in {"returned", "ValueError"}
    => LET least == MinHeatLoss
       IN  IF walk_pc = "returned"
           THEN walk_result = least /\ least < Unreached
           ELSE least = Unreached

\* a city of five rows and nine columns with a costly block on the way along
\* the top and one on the way along the bottom: the path of three runs,
\* right, down, right, is the cheapest
C11_Witness ==
    /\ walk_pc = "returned"
    /\ CityHeight = 5 /\ CityWidth = 9
    /\ grid[1][6] = CostlyCost /\ grid[5][4] = CostlyCost
    /\ walk_result = 12

\* C12: whenever part 2's take_a_hike is called on a map, it returns, and
\* what it returns is what the exhaustive visit from the start tile returns
C12_HikeEqualsVisit ==
    /\ hike_pc \notin {"IndexError", "forever"}
    /\ hike_pc = "returned"
       => longest_path = Map2_visit(Map2_start_point, {Map2_start_point}, 0)

\* C13: on a map that has a hike from the start tile to end_point, part 1's
\* take_a_hike returns the steps of the longest such hike
C13_HikeReturnsLongestToEnd ==
    (hike_pc = "returned" /\ Hikes # {}) => longest_path = SetMax(Hikes)

\* C14 as stated: on every maze whose S lies on a loop of pipes, the walk
\* steps from a tile to a tile its pipe is joined to, comes back to S and
\* returns, has then marked exactly the tiles of the loop, and parse_file
\* returns half their number
C14_WalkMarksTheLoop ==
    /\ [](maze_pc \notin {"RuntimeError", "IndexError"})
    /\ [][maze_pc = "walking" /\ maze_pc' = "walking"
            => \E d \in Compass :
                 /\ Joined(maze_lines, <<maze_cur[1], maze_cur[2]>>, d)
                 /\ <<maze_cur'[1], maze_cur'[2]>> =
                        Toward(<<maze_cur[1], maze_cur[2]>>, d)]_vars
    /\ [](maze_pc = "returned"
            => /\ ReachableTiles(cells) = LoopTiles
               /\ 2 * maze_result = Cardinality(LoopTiles))
    /\ (maze_pc = "call") ~> (maze_pc = "returned")

\* exactly two of the tiles next to S hold a pipe that opens toward S
TwoJoinS == maze_lines # <<>> /\ Cardinality(StartJoins) = 2

\* C14, for the mazes in which exactly two pipes open toward S
C14_WalkMarksTheLoopOfTwo ==
    /\ [](TwoJoinS
            => maze_pc \notin {"RuntimeError", "IndexError"})
    /\ [][TwoJoinS /\ maze_pc = "walking" /\ maze_pc' = "walking"
            => \E d \in Compass :
                 /\ Joined(maze_lines, <<maze_cur[1], maze_cur[2]>>, d)
                 /\ <<maze_cur'[1], maze_cur'[2]>> =
                        Toward(<<maze_cur[1], maze_cur[2]>>, d)]_vars
    /\ [](TwoJoinS /\ maze_pc = "returned"
            => /\ ReachableTiles(cells) = LoopTiles
               /\ 2 * maze_result = Cardinality(LoopTiles))
    /\ (TwoJoinS /\ maze_pc = "call") ~> (maze_pc = "returned")

\* a walk round a loop of eight tiles or more that a further pipe lies next
\* to has returned
C14_Witness ==
    /\ maze_pc = "returned"
    /\ TwoJoinS
    /\ Cardinality(LoopTiles) >= 8
    /\ maze_result = Cardinality(LoopTiles) \div 2
    /\ \E t \in MazeTiles \ LoopTiles : maze_lines[t[1] + 1][t[2] + 1] \in Pipes

\* C15: the list walk_n_steps returns holds, for every remembered number of
\* steps that is at least 1, in increasing order, the number of positions a
\* walk of exactly that many steps from S can end on
C15_ReturnsPositionsReached ==
    plot_pc = "returned"
    => plot_out = [k \in DOMAIN Remembered |-> Cardinality(ReachedIn(Remembered[k]))]

\* C16: on a graph whose costs are all non-negative, with start_id and end_id
\* set, dijkstra() terminates: no round of its loop repeats for ever and
\* none raises, every round expands a node that was not expanded before, and
\* the call returns the cost of the cheapest path, INFINITY when end_id
\* cannot be reached
C16_DijkstraTerminates ==
    (start_id # None /\ end_id # None /\ ~HasNegativeCost)
    => /\ sp_pc \notin {"diverged", "runtime_error"}
       /\ \A n \in NodeIds : expanded[n] <= 1
       /\ (sp_pc = "loop" /\ cur_id # None /\ cur_id # end_id) => expanded[cur_id] = 0
       /\ sp_pc = "returned" => sp_result = ShortestCost(start_id, end_id)

\* C19: once every line of the file is added, every Conjunction remembers
\* LOW for exactly the modules that list it in their send_to, and every path
\* left in _missing_paths leads to a name that no line defines
C19_ConjunctionsKnowTheirInputs ==
    net_pc = "built"
    => /\ \A n \in DOMAIN modules :
            modules[n].kind = "Conjunction"
            => /\ DOMAIN modules[n].most_recent_signal = ListedBy(n)
               /\ \A m \in ListedBy(n) : modules[n].most_recent_signal[m] = "LOW"
       /\ \A i \in DOMAIN missing_paths : missing_paths[i][2] \notin DefinedNames

\* a conjunction defined before one of the modules that list it and after
\* another, in a file that also sends to a name it does not define
C19_Witness ==
    /\ net_pc = "built"
    /\ Len(net_lines) = 3
    /\ net_lines[2].type = "&"
    /\ net_lines[2].name \in SeqToSet(net_lines[1].send_to)
    /\ net_lines[2].name \in SeqToSet(net_lines[3].send_to)
    /\ missing_paths # <<>>

\* C17 (day 20, push_button): within one call the signals are handled in the
\* order in which they were sent.  At every moment the signals handled so far
\* followed by the waiting ones are the signals sent so far, in the order of
\* sending (so a signal sent earlier is handled before one sent later); the
\* signals a module sent for one pulse are one per entry of its send_to, the
\* k-th of them to the k-th entry; and part 2 returns the signals in the
\* order of handling.
C17_PulsesHandledInOrderSent ==
    /\ SignalsOf(emitted) = delivered \o signals_to_send
    /\ \A i \in DOMAIN emitted :
          emitted[i].by > 0
          => LET sender == delivered[emitted[i].by].to
                 batch == {j \in DOMAIN emitted : emitted[j].by = emitted[i].by}
             IN  /\ sender \in DOMAIN modules
                 /\ emitted[i].sig.fr = sender
                 /\ Cardinality(batch) = Len(modules[sender].send_to)
                 /\ emitted[i].sig.to = modules[sender].send_to[emitted[i].k]
                 /\ \A j \in batch : j < i <=> emitted[j].k < emitted[i].k
    /\ net_part = 2 => signals_sent = delivered

\* the second signal a module sent for one pulse has been handled, after the
\* first push, in part 2
C17_Witness ==
    /\ net_part = 2
    /\ pushes >= 1
    /\ net_pc = "pushing"
    /\ Len(delivered) >= 5
    /\ \E i \in 1..Len(delivered) : emitted[i].k = 2 /\ emitted[i].by > 1

\* C18 (day 20, FlipFlop): a flip-flop is on iff it was handed an odd number
\* of LOW pulses; a HIGH pulse changes no module and sends nothing; a LOW
\* pulse toggles the flip-flop, which then sends HIGH to every entry of its
\* send_to if it is now on and LOW if it is now off.  In part 1 and part 2.
C18_FlipFlopTogglesOnLow ==
    /\ [](\A n \in DOMAIN modules :
             modules[n].kind = "FlipFlop"
             => (modules[n].on <=> lows_received[n] % 2 = 1))
    /\ [][(/\ net_pc = "pushing"
           /\ Len(delivered') = Len(delivered) + 1
           /\ delivered'[Len(delivered')].to \in DOMAIN modules
           /\ modules[delivered'[Len(delivered')].to].kind = "FlipFlop")
          => LET sig == delivered'[Len(delivered')]
                 before == modules[sig.to]
                 after == modules'[sig.to]
                 sent == SignalsOf(SubSeq(emitted', Len(emitted) + 1, Len(emitted')))
             IN  IF sig.pulse = "HIGH"
                 THEN modules' = modules /\ sent = <<>>
                 ELSE /\ after.on = ~before.on
                      /\ modules' = [modules EXCEPT ![sig.to].on = ~before.on]
                      /\ sent = [k \in 1..Len(before.send_to) |->
                                    Signal(IF after.on THEN "HIGH" ELSE "LOW",
                                           sig.to, before.send_to[k])]]_vars

\* in part 2, a flip-flop that was turned on and off again has also been
\* handed a HIGH pulse
C18_Witness ==
    /\ net_part = 2
    /\ \E n \in DOMAIN modules :
          /\ modules[n].kind = "FlipFlop"
          /\ lows_received[n] >= 2
          /\ ~modules[n].on
          /\ \E i \in DOMAIN delivered :
                delivered[i].pulse = "HIGH" /\ delivered[i].to = n

=============================================================================
